---- MODULE Spec2Model ----
(***************************************************************************)
(* Clash-Royale-AI: the environment (env.py, Actions.py), its action       *)
(* space, state encoder, reward model and terminal watcher thread, and the *)
(* agent's replay memory (dqn_agent.py).                                   *)
(*                                                                         *)
(* Numbers.  Python floats are modelled as exact rationals <<num, den>>    *)
(* in lowest terms with den > 0; float32 rounding is not modelled.         *)
(***************************************************************************)
EXTENDS Integers, Sequences, FiniteSets, TLC

VARIABLES
    \* ---- ClashRoyaleEnv.__init__ / get_available_actions
    grid_width, grid_height, constructed, available_actions, lookup,
    \* ---- the process environment: which of ROBOFLOW_API_KEY,
    \* WORKSPACE_TROOP_DETECTION and WORKSPACE_CARD_DETECTION are set
    config,
    \* ---- ClashRoyaleEnv fields
    game_over_flag, endgame_thread, endgame_thread_stop, threads,
    prev_elixir, prev_enemy_presence, prev_enemy_princess_towers,
    match_over_detected, trophy_road_detected, in_battle, on_home_screen,
    current_cards,
    \* ---- the caller (training thread): where it is, what the last call returned
    mainpc, ret,
    \* ---- DQNAgent
    memory, remembered, train_steps, win_streak, best_win_streak, total_wins,
    total_losses, game_outcomes, recent_losses,
    epsilon, learning_rate, model_weights, target_weights,
    \* ---- the caller of the agent: the last call it made
    call,
    \* ---- the driver loop (train.py train, automated_clash_bot.py run)
    train

envVars == <<game_over_flag, endgame_thread, endgame_thread_stop, threads,
             prev_elixir, prev_enemy_presence, prev_enemy_princess_towers,
             match_over_detected, trophy_road_detected, in_battle,
             on_home_screen, current_cards, mainpc, ret>>
gridVars == <<grid_width, grid_height, constructed, available_actions, lookup,
              config>>
agentVars == <<memory, remembered, train_steps, win_streak, best_win_streak,
               total_wins, total_losses, game_outcomes, recent_losses,
               epsilon, learning_rate, model_weights, target_weights, call>>
vars == <<gridVars, envVars, agentVars, train>>

\* Python's None: as a name, as a float (a denominator no float has) and as
\* a count
None == "None"
NoneRat == <<0, 0>>
NoneCount == 0 - 1

(***************************************************************************)
(* Rationals                                                               *)
(***************************************************************************)
Abs(n) == IF n < 0 THEN -n ELSE n

RECURSIVE Gcd(_, _)
Gcd(a, b) == IF b = 0 THEN a ELSE Gcd(b, a % b)

\* n / d for d > 0, in lowest terms
Rat(n, d) == LET g == Gcd(Abs(n), d) IN <<n \div g, d \div g>>
Zero == <<0, 1>>
RatInt(n) == <<n, 1>>
RatEq(a, b) == a[1] * b[2] = b[1] * a[2]
\* comparison and sum over the least common denominator, product with the
\* common factors cancelled first (the numbers stay within TLC's integers)
Lcm(a, b) == (a \div Gcd(a, b)) * b
RatLt(a, b) ==
    LET L == Lcm(a[2], b[2]) IN a[1] * (L \div a[2]) < b[1] * (L \div b[2])
RatAdd(a, b) ==
    LET L == Lcm(a[2], b[2]) IN Rat(a[1] * (L \div a[2]) + b[1] * (L \div b[2]), L)
RatNeg(a) == <<-a[1], a[2]>>
RatSub(a, b) == RatAdd(a, RatNeg(b))
RatMul(a, b) ==
    LET g1 == Gcd(Abs(a[1]), b[2])
        g2 == Gcd(Abs(b[1]), a[2])
    IN  Rat((a[1] \div g1) * (b[1] \div g2), (a[2] \div g2) * (b[2] \div g1))
RatMin(a, b) == IF RatLt(b, a) THEN b ELSE a
\* int(): truncation toward zero
RatTrunc(a) == IF a[1] >= 0 THEN a[1] \div a[2] ELSE -((-a[1]) \div a[2])

(***************************************************************************)
(* Action space: env.py get_available_actions                              *)
(***************************************************************************)
num_cards == 4

\* bounds of the grids tried by SpecActions, and the grid of the environment Spec
MaxGrid == 3
EnvGrid == 2

NoOp == <<-1, Zero, Zero>>

\* The list comprehension of get_available_actions, loop by loop:
\*   for card in range(num_cards): for x in range(W): for y in range(H)
\* the innermost loop varies fastest.
ForY(card, x, W, H) ==
    [y1 \in 1..H |-> <<card, Rat(x, W - 1), Rat(y1 - 1, H - 1)>>]

RECURSIVE ForX(_, _, _, _)
ForX(card, n, W, H) ==
    IF n = 0 THEN <<>> ELSE ForX(card, n - 1, W, H) \o ForY(card, n - 1, W, H)

RECURSIVE ForCard(_, _, _)
ForCard(n, W, H) ==
    IF n = 0 THEN <<>> ELSE ForCard(n - 1, W, H) \o ForX(n - 1, W, W, H)

\* the same cells enumerated with the y loop outside the x loop
GridActionsYMajor(W, H) ==
    [k \in 1..(num_cards * W * H) |->
        LET i == k - 1
            rem == i % (W * H)
        IN  <<i \div (W * H), Rat(rem % W, W - 1), Rat(rem \div W, H - 1)>>]

GridActions(W, H) == ForCard(num_cards, W, H)

\* x / (grid_width - 1) raises ZeroDivisionError when grid_width = 1 (x = 0 is
\* the first x tried), and so does y / (grid_height - 1) when grid_height = 1;
\* with an empty range nothing is evaluated.
DivisionByZero(W, H) == W >= 1 /\ H >= 1 /\ (W = 1 \/ H = 1)

get_available_actions(W, H) == GridActions(W, H) \o <<NoOp>>

ActionEq(a, b) == a[1] = b[1] /\ RatEq(a[2], b[2]) /\ RatEq(a[3], b[3])

NoLookup == [index |-> -1, action |-> NoOp]

\* The process environment with every identifier set
AllSet == [api_key |-> TRUE, troop |-> TRUE, card |-> TRUE]

\* setup_roboflow / setup_card_roboflow lines 57-59, 69-71: `if not api_key`
ApiKeyMissing(c) == ~c.api_key

\* _count_enemy_princess_towers lines 570-572, _get_state lines 324-326
TroopWorkspaceMissing(c) == ~c.troop

\* detect_cards_in_hand lines 517-519 (the ValueError is caught at line 543)
CardWorkspaceMissing(c) == ~c.card

\* __init__: setup_roboflow and setup_card_roboflow (lines 23-24), then lines
\* 28-39 with the grid read from GRID_WIDTH / GRID_HEIGHT
Construct ==
    /\ constructed = "no"
    /\ IF ApiKeyMissing(config)
       THEN /\ constructed' = "ValueError"
            /\ available_actions' = <<>>
       ELSE IF DivisionByZero(grid_width, grid_height)
       THEN /\ constructed' = "ZeroDivisionError"
            /\ available_actions' = <<>>
       ELSE /\ constructed' = "ok"
            /\ available_actions' = get_available_actions(grid_width, grid_height)
    /\ UNCHANGED <<grid_width, grid_height, lookup, config, envVars, agentVars,
                   train>>

\* self.available_actions[action_index] (step line 277), index 0-based
Decode(i) ==
    /\ constructed = "ok"
    /\ i \in 0..(Len(available_actions) - 1)
    /\ lookup' = [index |-> i, action |-> available_actions[i + 1]]
    /\ UNCHANGED <<grid_width, grid_height, constructed, available_actions,
                   config, envVars, agentVars,
                   train>>

(***************************************************************************)
(* State encoder: env.py _get_state                                        *)
(*                                                                         *)
(* A prediction is a record [side, name, hasxy, x, y]; its normalised      *)
(* class string is side ++ " " ++ name, so startswith("ally") is           *)
(* side = "ally".  x, y are pixel coordinates in the captured field.       *)
(***************************************************************************)
MAX_ENEMIES == 10
MAX_ALLIES == 10

\* Actions.__init__, the Windows preset (the only one with a card bar)
TOP_LEFT_X == 1376
TOP_LEFT_Y == 120
BOTTOM_RIGHT_X == 1838
BOTTOM_RIGHT_Y == 769
WIDTH == BOTTOM_RIGHT_X - TOP_LEFT_X
HEIGHT == BOTTOM_RIGHT_Y - TOP_LEFT_Y

state_size == 1 + 2 * (MAX_ALLIES + MAX_ENEMIES)

TOWER_CLASSES == {<<"ally", "king tower">>, <<"ally", "princess tower">>,
                  <<"enemy", "king tower">>, <<"enemy", "princess tower">>}

Pred(side, name, x, y) == [side |-> side, name |-> name, hasxy |-> TRUE, x |-> x, y |-> y]

IsAllyUnit(p) ==
    /\ <<p.side, p.name>> \notin TOWER_CLASSES
    /\ p.side = "ally"
    /\ p.hasxy

IsEnemyUnit(p) ==
    /\ <<p.side, p.name>> \notin TOWER_CLASSES
    /\ p.side = "enemy"
    /\ p.hasxy

\* normalize(units)
normalize(units) ==
    [i \in 1..Len(units) |-> <<Rat(units[i].x, WIDTH), Rat(units[i].y, HEIGHT)>>]

\* padding without the final [:max_units]
pad_units_NoTruncate(units, max_units) ==
    LET n == normalize(units)
    IN  IF Len(n) < max_units
        THEN n \o [i \in 1..(max_units - Len(n)) |-> <<Zero, Zero>>]
        ELSE n

\* pad_units(units, max_units)
pad_units(units, max_units) ==
    LET n == normalize(units)
        padded == IF Len(n) < max_units
                  THEN n \o [i \in 1..(max_units - Len(n)) |-> <<Zero, Zero>>]
                  ELSE n
    IN  SubSeq(padded, 1, max_units)

\* [coord for pos in positions for coord in pos]
Flatten(positions) ==
    [i \in 1..(2 * Len(positions)) |-> positions[(i + 1) \div 2][2 - (i % 2)]]

\* _get_state with the detector returning `predictions` and count_elixir `elixir`
GetState(predictions, elixir) ==
    LET allies == SelectSeq(predictions, IsAllyUnit)
        enemies == SelectSeq(predictions, IsEnemyUnit)
        ally_flat == Flatten(pad_units(allies, MAX_ALLIES))
        enemy_flat == Flatten(pad_units(enemies, MAX_ENEMIES))
    IN  <<Rat(elixir, 10)>> \o ally_flat \o enemy_flat

\* _count_enemy_princess_towers
CountEnemyPrincessTowers(predictions) ==
    Len(SelectSeq(predictions,
                  LAMBDA p : p.side = "enemy" /\ p.name = "princess tower"))

(***************************************************************************)
(* Inputs: what the detector, the screen and the driver can supply         *)
(***************************************************************************)
\* units per side in the crowded frame (more than MAX_ALLIES, MAX_ENEMIES)
MaxUnits == 12
\* reset() calls per environment
MaxResets == 2

FrameEmpty == <<>>

FrameFew ==
    << Pred("enemy", "princess tower", 100, 50),
       Pred("ally", "knight", 200, 400),
       Pred("enemy", "princess tower", 360, 50),
       Pred("enemy", "giant", 231, 300),
       [side |-> "enemy", name |-> "archer", hasxy |-> FALSE, x |-> 0, y |-> 0],
       Pred("ally", "king tower", 231, 600),
       Pred("other", "elixir", 10, 10) >>

\* one enemy princess tower and one ally tower, then MaxUnits allies and
\* MaxUnits enemies alternating, every coordinate different
FrameMany ==
    [i \in 1..(2 * MaxUnits + 2) |->
        CASE i = 1 -> Pred("enemy", "princess tower", 100, 50)
          [] i = 2 -> Pred("ally", "princess tower", 100, 600)
          [] i > 2 /\ i % 2 = 1 -> Pred("ally", "knight", 10 * i, 20 * i)
          [] OTHER -> Pred("enemy", "goblin", 11 * i, i)]

\* one enemy unit in the bottom right corner of the captured field region
\* (capture_area, Actions.py line 147: detections are relative to the region)
FrameAimed ==
    << Pred("enemy", "princess tower", 100, 50),
       Pred("enemy", "goblin", WIDTH, HEIGHT) >>

\* The detector outputs by name, and the scenes: a detector output with an
\* elixir reading
Frames == {"empty", "few", "many", "aimed"}
FrameOf(f) ==
    CASE f = "empty" -> FrameEmpty
      [] f = "few" -> FrameFew
      [] f = "many" -> FrameMany
      [] f = "aimed" -> FrameAimed
Elixirs == {3, 5}
Scenes == [frame : Frames, elixir : Elixirs]

\* _get_state() and _count_enemy_princess_towers() for every scene
Encoded == [s \in Scenes |-> GetState(FrameOf(s.frame), s.elixir)] @@ <<>>
TowerCount == [f \in Frames |-> CountEnemyPrincessTowers(FrameOf(f))] @@ <<>>
Screens == {"home_screen", "in_battle", "post_match", "unknown"}

\* detect_cards_in_hand: four names, or [] when it caught an exception
HandError == <<>>
HandUnknown == <<"Unknown", "Unknown", "Unknown", "Unknown">>
HandKnown == <<"Fireball", "Knight", "Unknown", "Giant">>
Hands == {HandError, HandUnknown, HandKnown}

Results == {"victory", "defeat"}

(***************************************************************************)
(* Reward model: env.py _compute_reward                                    *)
(***************************************************************************)
RECURSIVE SumSeq(_)
SumSeq(s) == IF s = <<>> THEN Zero ELSE RatAdd(s[1], SumSeq(Tail(s)))

\* enemy_positions[1::2] where enemy_positions = state[1 + 2 * MAX_ALLIES:]
EnemyYs(state) ==
    LET first == 1 + 2 * MAX_ALLIES     \* 0-based index of enemy x1
        n == (Len(state) - first) \div 2
    IN  [k \in 1..n |-> state[first + 2 * k]]

CloseEnemies(ys) == Cardinality({k \in 1..Len(ys) : RatLt(RatInt(500), ys[k])})

\* lines 467-472 and 499-502: what _compute_reward reads off `state`
StateFacts(state) ==
    LET ys == EnemyYs(state)
    IN  [ elixir |-> RatMul(state[1], RatInt(10)),
          enemy_presence |-> SumSeq(ys),
          close_enemies |-> CloseEnemies(ys) ]

Sensed == [s \in Scenes |-> StateFacts(Encoded[s])] @@ <<>>

\* a base term that ignores the enemy presence
BaseTermFlat(enemy_presence) == Zero

\* line 475: reward = -enemy_presence * 0.5
BaseTerm(enemy_presence) == RatMul(RatNeg(enemy_presence), <<1, 2>>)

\* a defence-success term that pays a fixed amount
SuccessTermFixed(enemy_reduced) == RatInt(10)

\* line 489: reward += 10 * enemy_reduced
SuccessTerm(enemy_reduced) == RatMul(RatInt(10), enemy_reduced)

\* The terms of the reward for a state with facts f, given the shaping memory
\* pe, pp (prev_elixir, prev_enemy_presence; NoneRat when unset).
RewardTerms(f, pe, pp) ==
    LET elixir == f.elixir
        enemy_presence == f.enemy_presence
        present == RatLt(Zero, enemy_presence)
        elixir_spent == IF pe = NoneRat THEN Zero ELSE RatSub(pe, elixir)
        enemy_reduced == IF pp = NoneRat THEN Zero ELSE RatSub(pp, enemy_presence)
    IN  [ base |-> BaseTerm(enemy_presence),
          defensive |-> IF present /\ pe # NoneRat /\ RatLt(Zero, elixir_spent)
                        THEN RatInt(5) ELSE Zero,
          success |-> IF pp # NoneRat /\ RatLt(Zero, enemy_reduced)
                      THEN SuccessTerm(enemy_reduced) ELSE Zero,
          efficiency |-> IF pe # NoneRat /\ pp # NoneRat
                            /\ RatLt(Zero, elixir_spent) /\ RatLt(Zero, enemy_reduced)
                         THEN RatMul(RatInt(3), RatMin(elixir_spent, enemy_reduced))
                         ELSE Zero,
          close |-> IF present THEN RatInt(-2 * f.close_enemies) ELSE Zero,
          elixir |-> elixir,
          enemy_presence |-> enemy_presence ]

ShapedReward(t) ==
    RatAdd(RatAdd(RatAdd(RatAdd(t.base, t.defensive), t.success), t.efficiency), t.close)

(***************************************************************************)
(* Environment: env.py reset / step / close / _endgame_watcher             *)
(*                                                                         *)
(* threads[t] is the watcher thread started by the t-th reset():           *)
(*   pc = "check"  at the loop test `while not stop.is_set()`              *)
(*   pc = "poll"   inside actions.detect_game_end()                        *)
(*   pc = "sleep"  in time.sleep(0.5) after a poll without a result        *)
(*   pc = "write"  holding a result, before `self.game_over_flag = result` *)
(*   pc = "exited" returned                                                *)
(* endgame_thread is the index of the thread self._endgame_thread refers   *)
(* to (0 for None).                                                        *)
(***************************************************************************)
SPELL_CARDS == {"Fireball", "Zap", "Arrows", "Tornado", "Rocket", "Lightning", "Freeze"}

NoTerms == [defensive |-> Zero, success |-> Zero, efficiency |-> Zero,
            tower |-> Zero, spell |-> Zero, terminal |-> Zero]

\* What the last reset() or step() call returned and what it did to the game.
\*   arg     the action index passed, index the index in use at line 277
\*           (after the forced no-op; -1 on the paths that return earlier)
\*   state   _get_state() at the last capture of the call, seen what the
\*           detector and the elixir counter showed at that capture
\*   flag    game_over_flag when the call was made
\*   first   whether the call is the first one after a reset()
\*   card    the card slot played (-1 for none), key whether a card key was
\*           pressed, click the pointer click issued ("none", "button" a menu
\*           button, "centre" the neutral click, "field" the card placement)
\*   towers  the enemy princess tower count the call read (NoneCount: none)
\*   shaping for a direct _compute_reward call, the shaping memory
\*           <<prev_elixir, prev_enemy_presence>> the call found
\*   bonuses the step() calls since the last reset() whose reward included
\*           a terminal bonus: 0, 1, or 2 for two or more
Ret(op, path, arg, index, scene, reward, done, terms, card, key, click, towers) ==
    [op |-> op, path |-> path, arg |-> arg, index |-> index, seen |-> scene,
     state |-> Encoded[scene], reward |-> reward,
     done |-> done, terms |-> terms, flag |-> game_over_flag,
     first |-> (ret.op = "reset"), card |-> card,
     key |-> key, click |-> click, towers |-> towers,
     shaping |-> <<NoneRat, NoneRat>>,
     bonuses |-> IF op = "reset" THEN 0
                 ELSE IF terms.terminal = Zero THEN ret.bonuses
                 ELSE IF ret.bonuses = 0 THEN 1 ELSE 2]

NoRet ==
    [op |-> "init", path |-> "none", arg |-> -1, index |-> -1,
     seen |-> [frame |-> "none", elixir |-> -1], state |-> <<>>,
     reward |-> Zero, done |-> FALSE, terms |-> NoTerms, flag |-> None,
     first |-> FALSE, card |-> -1, key |-> FALSE, click |-> "none",
     towers |-> NoneCount, shaping |-> <<NoneRat, NoneRat>>, bonuses |-> 0]

\* a terminal test that passes whatever the flag holds
TruthyAlways(flag) == TRUE

\* a terminal test that never passes
TruthyNever(flag) == FALSE

\* line 243, `if self.game_over_flag:`
Truthy(flag) == flag # None

\* a bonus that forgets the defeat branch
TerminalBonusVictoryOnly(result) ==
    IF result = "victory" THEN RatInt(100) ELSE Zero

\* lines 247-252: the bonus added for the result the flag holds
TerminalBonus(result) ==
    CASE result = "victory" -> RatInt(100)
      [] result = "defeat" -> RatInt(-100)
      [] OTHER -> Zero

\* lines 190-222: the flags after the screen classification
InBattleAfter(screen) ==
    CASE screen \in {"home_screen", "post_match"} -> FALSE
      [] screen = "in_battle" -> TRUE
      [] OTHER -> in_battle

OnHomeAfter(screen) ==
    CASE screen = "home_screen" -> TRUE
      [] screen = "in_battle" -> FALSE
      [] OTHER -> on_home_screen

\* lines 214, 235-237: match_over_detected before the terminal test
MatchOverAfter(screen, mo) ==
    \/ match_over_detected
    \/ screen = "post_match"
    \/ mo

\* an index that the match-over screen does not override
EffectiveIndexAsPassed(arg, screen, mo) == arg

\* lines 217, 240-241: the index used after the forced no-op
EffectiveIndex(arg, screen, mo) ==
    IF MatchOverAfter(screen, mo) THEN Len(available_actions) - 1 ELSE arg

\* an all-unknown test that does not pass on the empty hand
AllUnknownNonEmpty(cards) ==
    Len(cards) > 0 /\ \A i \in 1..Len(cards) : cards[i] = "Unknown"

\* line 260, all(card == "Unknown" for card in self.current_cards)
AllUnknown(cards) == \A i \in 1..Len(cards) : cards[i] = "Unknown"

\* lines 292-305: -5 if a spell was played with no enemy within radius 100
SpellPenalty(card_name, state, x, y) ==
    IF card_name \notin SPELL_CARDS THEN Zero
    ELSE LET first == 1 + 2 * MAX_ALLIES
             slots == {k \in 1..MAX_ENEMIES :
                          state[first + 2 * k - 1] # Zero \/ state[first + 2 * k] # Zero}
             ex(k) == RatTrunc(RatMul(state[first + 2 * k - 1], RatInt(WIDTH)))
             ey(k) == RatTrunc(RatMul(state[first + 2 * k], RatInt(HEIGHT)))
             radius == 100
             found_enemy == \E k \in slots :
                 (ex(k) - x) * (ex(k) - x) + (ey(k) - y) * (ey(k) - y) < radius * radius
         IN  IF found_enemy THEN Zero ELSE RatInt(-5)

\* a reset() that leaves the shaping memory as the last episode left it
ResetKeepsShaping(frame, scene) ==
    /\ mainpc = "idle"
    /\ game_over_flag' = None
    /\ endgame_thread_stop' = FALSE
    /\ threads' = Append(threads, [pc |-> "check", res |-> None])
    /\ endgame_thread' = Len(threads) + 1
    /\ prev_enemy_princess_towers' = TowerCount[frame]
    /\ match_over_detected' = FALSE
    /\ trophy_road_detected' = FALSE
    /\ ret' = Ret("reset", "reset", -1, -1, scene, Zero,
                  FALSE, NoTerms, -1, FALSE, "none", TowerCount[frame])
    /\ UNCHANGED <<prev_elixir, prev_enemy_presence, in_battle, on_home_screen,
                   current_cards, mainpc, gridVars, agentVars,
                   train>>

\* ---- reset(), lines 117-126 (the menu navigation before them changes no field)
Reset(frame, scene) ==
    /\ mainpc = "idle"
    /\ game_over_flag' = None
    /\ endgame_thread_stop' = FALSE
    /\ threads' = Append(threads, [pc |-> "check", res |-> None])
    /\ endgame_thread' = Len(threads) + 1
    /\ prev_elixir' = NoneRat
    /\ prev_enemy_presence' = NoneRat
    /\ IF TroopWorkspaceMissing(config)
       THEN \* line 123: _count_enemy_princess_towers raises ValueError
            /\ ret' = [NoRet EXCEPT !.op = "reset", !.path = "ValueError",
                                    !.flag = game_over_flag,
                                    !.first = (ret.op = "reset")]
            /\ UNCHANGED <<prev_enemy_princess_towers, match_over_detected,
                           trophy_road_detected>>
       ELSE /\ prev_enemy_princess_towers' = TowerCount[frame]
            /\ match_over_detected' = FALSE
            /\ trophy_road_detected' = FALSE
            /\ ret' = Ret("reset", "reset", -1, -1, scene, Zero,
                          FALSE, NoTerms, -1, FALSE, "none", TowerCount[frame])
    /\ UNCHANGED <<in_battle, on_home_screen, current_cards, mainpc, gridVars, agentVars,
                   train>>

\* ---- close(): set the stop event, then join self._endgame_thread
Close ==
    /\ mainpc = "idle"
    /\ endgame_thread_stop' = TRUE
    /\ mainpc' = IF endgame_thread = 0 THEN "closed" ELSE "joining"
    /\ UNCHANGED <<game_over_flag, endgame_thread, threads, prev_elixir,
                   prev_enemy_presence, prev_enemy_princess_towers,
                   match_over_detected, trophy_road_detected, in_battle,
                   on_home_screen, current_cards, ret, gridVars, agentVars,
                   train>>

\* join() returns once the joined thread has exited
CloseJoin ==
    /\ mainpc = "joining"
    /\ threads[endgame_thread].pc = "exited"
    /\ mainpc' = "closed"
    /\ UNCHANGED <<game_over_flag, endgame_thread, endgame_thread_stop, threads,
                   prev_elixir, prev_enemy_presence, prev_enemy_princess_towers,
                   match_over_detected, trophy_road_detected, in_battle,
                   on_home_screen, current_cards, ret, gridVars, agentVars,
                   train>>

\* ---- _endgame_watcher
watcherFrame == <<endgame_thread, endgame_thread_stop, prev_elixir,
                  prev_enemy_presence, prev_enemy_princess_towers,
                  match_over_detected, trophy_road_detected, in_battle,
                  on_home_screen, current_cards, mainpc, ret, gridVars, agentVars,
                   train>>

\* `while not self._endgame_thread_stop.is_set()`
WatcherCheck(t) ==
    /\ threads[t].pc = "check"
    /\ threads' = [threads EXCEPT ![t].pc =
                      IF endgame_thread_stop THEN "exited" ELSE "poll"]
    /\ UNCHANGED <<game_over_flag, watcherFrame>>

\* a watcher that gives up after the first poll without a result
WatcherPollOnce(t, result) ==
    /\ threads[t].pc = "poll"
    /\ threads' = [threads EXCEPT ![t] =
                      IF result = None THEN [pc |-> "exited", res |-> None]
                      ELSE [pc |-> "write", res |-> result]]
    /\ UNCHANGED <<game_over_flag, watcherFrame>>

\* `result = self.actions.detect_game_end()`, lines 560-561; detect_game_end
\* catches every exception and returns None, so a failed poll is a poll
\* without a result
WatcherPoll(t, result) ==
    /\ threads[t].pc = "poll"
    /\ threads' = [threads EXCEPT ![t] =
                      IF result = None THEN [pc |-> "sleep", res |-> None]
                      ELSE [pc |-> "write", res |-> result]]
    /\ UNCHANGED <<game_over_flag, watcherFrame>>

\* `time.sleep(0.5)`, line 565, then back to the loop test
WatcherSleep(t) ==
    /\ threads[t].pc = "sleep"
    /\ threads' = [threads EXCEPT ![t].pc = "check"]
    /\ UNCHANGED <<game_over_flag, watcherFrame>>

\* `self.game_over_flag = result; break`
WatcherWrite(t) ==
    /\ threads[t].pc = "write"
    /\ game_over_flag' = threads[t].res
    /\ threads' = [threads EXCEPT ![t] = [pc |-> "exited", res |-> None]]
    /\ UNCHANGED watcherFrame

\* ---- step(action_index), one action per return path.
\* Inputs: arg the action index; screen the result of _detect_screen_state;
\* trophy, mo the results of detect_trophy_road and detect_match_over (lines
\* 225, 235); hand the result of detect_cards_in_hand; sS, sR, sN the
\* detector output and elixir reading at the captures of lines 293, 316 (245)
\* and 317 (254); tf the detector output at the tower count of line 308.
\* The paths after line 232 are those where the trophy-road test does not fire
\* (trophy road already seen in this episode, or not on screen).

stepFrame == <<endgame_thread, endgame_thread_stop, threads, game_over_flag,
               mainpc, gridVars, agentVars,
                   train>>

\* a home-screen return that also forgets the match-over screen
StepHomeForgets(arg, sN) ==
    /\ mainpc = "idle"
    /\ arg \in 0..(Len(available_actions) - 1)
    /\ on_home_screen' = TRUE
    /\ in_battle' = FALSE
    /\ match_over_detected' = FALSE
    /\ ret' = Ret("step", "home", arg, -1, sN, RatInt(5),
                  FALSE, NoTerms, -1, FALSE, "button", NoneCount)
    /\ UNCHANGED <<prev_elixir, prev_enemy_presence, prev_enemy_princess_towers,
                   trophy_road_detected, current_cards, stepFrame>>

\* lines 190-210: home screen, return (state, 5, False)
StepHome(arg, sN) ==
    /\ mainpc = "idle"
    /\ arg \in 0..(Len(available_actions) - 1)
    /\ on_home_screen' = TRUE
    /\ in_battle' = FALSE
    /\ ret' = Ret("step", "home", arg, -1, sN, RatInt(5),
                  FALSE, NoTerms, -1, FALSE, "button", NoneCount)
    /\ UNCHANGED <<prev_elixir, prev_enemy_presence, prev_enemy_princess_towers,
                   match_over_detected, trophy_road_detected, current_cards,
                   stepFrame>>

\* lines 212-232: trophy road seen for the first time, return (state, 10, False)
StepTrophy(arg, screen, sN) ==
    /\ mainpc = "idle"
    /\ arg \in 0..(Len(available_actions) - 1)
    /\ screen # "home_screen"
    /\ ~trophy_road_detected
    /\ in_battle' = InBattleAfter(screen)
    /\ on_home_screen' = OnHomeAfter(screen)
    /\ match_over_detected' = (match_over_detected \/ screen = "post_match")
    /\ trophy_road_detected' = TRUE
    /\ ret' = Ret("step", "trophy", arg, -1, sN, RatInt(10),
                  FALSE, NoTerms, -1, FALSE, "button", NoneCount)
    /\ UNCHANGED <<prev_elixir, prev_enemy_presence, prev_enemy_princess_towers,
                   current_cards, stepFrame>>

\* lines 243-254: the terminal flag is set
StepTerminal(arg, screen, sR, sN) ==
    /\ mainpc = "idle"
    /\ arg \in 0..(Len(available_actions) - 1)
    /\ screen # "home_screen"
    /\ Truthy(game_over_flag)
    /\ LET t == RewardTerms(Sensed[sR], prev_elixir,
                            prev_enemy_presence)
           result == game_over_flag
           bonus == TerminalBonus(result)
       IN  /\ prev_elixir' = t.elixir
           /\ prev_enemy_presence' = t.enemy_presence
           /\ ret' = Ret("step", "terminal", arg, -1, sN,
                         RatAdd(ShapedReward(t), bonus), TRUE,
                         [defensive |-> t.defensive, success |-> t.success,
                          efficiency |-> t.efficiency, tower |-> Zero,
                          spell |-> Zero, terminal |-> bonus],
                         -1, FALSE, "none", NoneCount)
    /\ in_battle' = InBattleAfter(screen)
    /\ on_home_screen' = OnHomeAfter(screen)
    /\ match_over_detected' = FALSE
    /\ UNCHANGED <<prev_enemy_princess_towers, trophy_road_detected,
                   current_cards, stepFrame>>

\* an unknown-hand return that clicks the centre whatever in_battle holds
StepNoHandClicks(arg, screen, mo, hand, sN) ==
    /\ mainpc = "idle"
    /\ arg \in 0..(Len(available_actions) - 1)
    /\ screen # "home_screen"
    /\ ~Truthy(game_over_flag)
    /\ AllUnknown(hand)
    /\ current_cards' = hand
    /\ in_battle' = InBattleAfter(screen)
    /\ on_home_screen' = OnHomeAfter(screen)
    /\ match_over_detected' = MatchOverAfter(screen, mo)
    /\ ret' = Ret("step", "no_hand", arg, EffectiveIndex(arg, screen, mo), sN,
                  Zero, FALSE, NoTerms, -1, FALSE, "centre", NoneCount)
    /\ UNCHANGED <<prev_elixir, prev_enemy_presence, prev_enemy_princess_towers,
                   trophy_road_detected, stepFrame>>

\* lines 256-275: every hand card is "Unknown" (also the empty hand that
\* detect_cards_in_hand returns on an exception), return (state, 0, False)
StepNoHand(arg, screen, mo, hand, sN) ==
    /\ mainpc = "idle"
    /\ arg \in 0..(Len(available_actions) - 1)
    /\ screen # "home_screen"
    /\ ~Truthy(game_over_flag)
    /\ AllUnknown(hand)
    /\ current_cards' = hand
    /\ in_battle' = InBattleAfter(screen)
    /\ on_home_screen' = OnHomeAfter(screen)
    /\ match_over_detected' = MatchOverAfter(screen, mo)
    /\ ret' = Ret("step", "no_hand", arg, EffectiveIndex(arg, screen, mo), sN,
                  Zero, FALSE, NoTerms, -1, FALSE,
                  IF InBattleAfter(screen) THEN "centre" ELSE "none", NoneCount)
    /\ UNCHANGED <<prev_elixir, prev_enemy_presence, prev_enemy_princess_towers,
                   trophy_road_detected, stepFrame>>

\* lines 277-318: decode the action, play the card if the slot is valid,
\* return (next_state, reward, False)
StepPlay(arg, screen, mo, hand, sS, tf, sR, sN) ==
    /\ mainpc = "idle"
    /\ arg \in 0..(Len(available_actions) - 1)
    /\ screen # "home_screen"
    /\ ~Truthy(game_over_flag)
    /\ ~AllUnknown(hand)
    /\ LET action == available_actions[EffectiveIndex(arg, screen, mo) + 1]
           card_index == action[1]
           valid == card_index # -1 /\ card_index < Len(hand)
           x == RatTrunc(RatMul(action[2], RatInt(WIDTH))) + TOP_LEFT_X
           y == RatTrunc(RatMul(action[3], RatInt(HEIGHT))) + TOP_LEFT_Y
           spell_penalty == IF valid
                            THEN SpellPenalty(hand[card_index + 1],
                                              Encoded[sS], x, y)
                            ELSE Zero
           current_enemy_princess_towers == TowerCount[tf]
           princess_tower_reward ==
               IF /\ prev_enemy_princess_towers # NoneCount
                  /\ current_enemy_princess_towers < prev_enemy_princess_towers
               THEN RatInt(20) ELSE Zero
           t == RewardTerms(Sensed[sR], prev_elixir,
                            prev_enemy_presence)
       IN  /\ prev_enemy_princess_towers' = current_enemy_princess_towers
           /\ prev_elixir' = t.elixir
           /\ prev_enemy_presence' = t.enemy_presence
           /\ ret' = Ret("step", "play", arg, EffectiveIndex(arg, screen, mo), sN,
                         RatAdd(RatAdd(ShapedReward(t), spell_penalty),
                                princess_tower_reward),
                         FALSE,
                         [defensive |-> t.defensive, success |-> t.success,
                          efficiency |-> t.efficiency,
                          tower |-> princess_tower_reward,
                          spell |-> spell_penalty, terminal |-> Zero],
                         IF valid THEN card_index ELSE -1, valid,
                         IF valid THEN "field" ELSE "none",
                         current_enemy_princess_towers)
    /\ current_cards' = hand
    /\ in_battle' = InBattleAfter(screen)
    /\ on_home_screen' = OnHomeAfter(screen)
    /\ match_over_detected' = MatchOverAfter(screen, mo)
    /\ UNCHANGED <<trophy_road_detected, stepFrame>>

\* ---- _compute_reward(state) called on a state vector (<<>> stands for None)
ComputeReward(state) ==
    /\ mainpc = "idle"
    /\ IF state = <<>>
       THEN /\ ret' = [NoRet EXCEPT !.op = "compute_reward", !.flag = game_over_flag,
                                    !.shaping = <<prev_elixir, prev_enemy_presence>>]
            /\ UNCHANGED <<prev_elixir, prev_enemy_presence>>
       ELSE LET t == RewardTerms(StateFacts(state), prev_elixir, prev_enemy_presence)
            IN  /\ prev_elixir' = t.elixir
                /\ prev_enemy_presence' = t.enemy_presence
                /\ ret' = [NoRet EXCEPT
                              !.op = "compute_reward", !.state = state,
                              !.reward = ShapedReward(t),
                              !.terms = [NoTerms EXCEPT !.defensive = t.defensive,
                                                        !.success = t.success,
                                                        !.efficiency = t.efficiency],
                              !.flag = game_over_flag,
                              !.shaping = <<prev_elixir, prev_enemy_presence>>]
    /\ UNCHANGED <<prev_enemy_princess_towers, current_cards, in_battle,
                   on_home_screen, match_over_detected, trophy_road_detected,
                   stepFrame>>

(***************************************************************************)
(* Agent: dqn_agent.py replay memory and game outcome bookkeeping          *)
(*                                                                         *)
(* A transition (s, a, r, s2, done) is [id, r, done]: id stands for the    *)
(* payload (s, a, s2), which no modelled operation changes or reads.       *)
(* `remembered` is the log of every transition passed to remember();       *)
(* recent_losses is the length of the list self.recent_losses.             *)
(* model_weights counts the optimizer steps applied to the online network  *)
(* (two networks hold equal weights iff their counts are equal);           *)
(* target_weights is the count the target network was copied at.           *)
(* learning_rate is the lr of the optimizer's parameter group.             *)
(***************************************************************************)
epsilon_min == <<1, 100>>
epsilon_decay == <<997, 1000>>

\* The last call made on the agent: op, and the arguments that matter
\* (batch the batch_size of replay; outcome, data of update_game_outcome)
\* `call` is the last agent call: its name and arguments, and for act() the
\* scene encoded in the state, the Q-values of the online network, whether
\* the random branch was taken and the index returned
NoAction == 0 - 1
NoAct == [scene |-> [frame |-> "none", elixir |-> 0], q |-> <<>>,
          random |-> FALSE, action |-> NoAction]
\* the batch a replay trained on: the buffer positions of the transitions
\* drawn from the recent negative-reward ones and of those drawn from the whole
\* buffer (NoSample: the batch is not followed, or none was drawn)
NoSample == [loss |-> {}, other |-> {}, drawn |-> FALSE]
Call(op, batch, outcome, data) ==
    [op |-> op, batch |-> batch, outcome |-> outcome, data |-> data,
     act |-> NoAct, sample |-> NoSample]

NoCall == Call("init", 0, "none", FALSE)

\* deque(maxlen=...): the capacity is 10000 in the code; the model runs it
\* scaled down to MemoryMaxLen
MemoryMaxLen == 5
\* calls of remember, update_game_outcome and training replay steps per run
MaxRemember == MemoryMaxLen + 1
MaxOutcomes == 2
MaxTrainSteps == 1

\* an append that never evicts
DequeAppendUnbounded(d, x, maxlen) == d \o <<x>>

\* deque.append with maxlen: a full deque drops its leftmost element
DequeAppend(d, x, maxlen) ==
    IF Len(d) >= maxlen THEN Tail(d) \o <<x>> ELSE d \o <<x>>

\* remember(s, a, r, s2, done)
Remember(r, done) ==
    /\ Len(remembered) < MaxRemember
    /\ LET tr == [id |-> Len(remembered) + 1, r |-> r, done |-> done]
       IN  /\ memory' = DequeAppend(memory, tr, MemoryMaxLen)
           /\ remembered' = Append(remembered, tr)
    /\ call' = Call("remember", 0, "none", FALSE)
    /\ UNCHANGED <<train_steps, win_streak, best_win_streak, total_wins,
                   total_losses, game_outcomes, recent_losses, epsilon,
                   learning_rate, model_weights, target_weights, gridVars, envVars>>

\* bool(t) of a tensor t: defined for a single element only; a RuntimeError
\* ("Boolean value of Tensor with more than one value is ambiguous") otherwise
TensorBoolAsList(t) == IF Len(t) > 0 THEN "true" ELSE "false"
TensorBool(t) ==
    IF Len(t) = 1 THEN (IF t[1] # Zero THEN "true" ELSE "false") ELSE "raise"

\* _urgent_defense_needed: "raise", or the value returned
urgent_defense_needed(enemy_positions) ==
    LET b == TensorBool(enemy_positions)
    IN  IF b = "raise" THEN "raise"
        ELSE IF b = "false" THEN "false"
        ELSE IF \E k \in 1..Len(enemy_positions) :
                   k % 2 = 0 /\ RatLt(RatInt(500), enemy_positions[k])
             THEN "true" ELSE "false"

\* _enemy_will_die_soon
enemy_will_die_soon(enemy_positions) ==
    LET b == TensorBool(enemy_positions)
    IN  IF b = "raise" THEN "raise"
        ELSE IF b = "false" THEN "false"
        ELSE IF Len(enemy_positions) > 0
                /\ RatLt(SumSeq(enemy_positions), RatInt(1000))
             THEN "true" ELSE "false"

\* _should_save_elixir
should_save_elixir(elixir, enemy_positions, ally_positions) ==
    LET urgent == IF RatLt(elixir, RatInt(3))
                  THEN urgent_defense_needed(enemy_positions) ELSE "skipped"
        dies == enemy_will_die_soon(enemy_positions)
    IN  IF urgent = "raise" THEN "raise"
        ELSE IF urgent = "false" THEN "true"
        ELSE IF dies = "raise" THEN "raise"
        ELSE IF dies = "true" THEN "true"
        ELSE IF Len(ally_positions) > Len(enemy_positions)
                /\ RatLt(elixir, RatInt(6))
             THEN "true" ELSE "false"

\* _get_high_elixir_action: the first of the actions 1..5 whose Q-value
\* exceeds 0.7 (q[a + 1] is the Q-value of action a)
get_high_elixir_action(q) ==
    LET high == {a \in 1..5 : a < Len(q) /\ RatLt(<<7, 10>>, q[a + 1])}
    IN  IF high = {} THEN NoAction
        ELSE CHOOSE a \in high : \A b \in high : a <= b

\* _apply_smart_logic for an agent whose strategy dictionaries are empty
\* (battle_phase_strategies, counter_strategies, positioning_data and
\* timing_patterns as __init__ leaves them): NoAction stands for None, also
\* returned when an exception was caught (line 139)
apply_smart_logic(state, q) ==
    LET elixir == RatMul(state[1], RatInt(10))
        ally_positions == SubSeq(state, 2, 1 + 2 * 10)
        enemy_positions == SubSeq(state, 2 + 2 * 10, Len(state))
        save == should_save_elixir(elixir, enemy_positions, ally_positions)
    IN  IF save = "raise" THEN NoAction
        ELSE IF save = "true" THEN 0
        ELSE IF ~RatLt(elixir, RatInt(8)) THEN get_high_elixir_action(q)
        ELSE NoAction

\* q_values.argmax().item(): the first index holding the largest Q-value
ArgMax(q) ==
    CHOOSE a \in 0..(Len(q) - 1) :
        /\ \A b \in 0..(Len(q) - 1) : ~RatLt(q[a + 1], q[b + 1])
        /\ \A b \in 0..(a - 1) : RatLt(q[b + 1], q[a + 1])

\* act(state): u is the value of random.random(), rnd of random.randrange,
\* scene the scene the state encodes, q the output of the online network
Act(u, rnd, scene, q) ==
    LET state == GetState(FrameOf(scene.frame), scene.elixir)
        explore == RatLt(u, epsilon)
        smart == apply_smart_logic(state, q)
        action == IF explore THEN rnd
                  ELSE IF smart # NoAction THEN smart
                  ELSE ArgMax(q)
    IN  /\ call' = [Call("act", 0, "none", FALSE) EXCEPT
                      !.act = [scene |-> scene, q |-> q, random |-> explore,
                               action |-> action]]
        /\ UNCHANGED <<memory, remembered, train_steps, win_streak,
                       best_win_streak, total_wins, total_losses, game_outcomes,
                       recent_losses, epsilon, learning_rate, model_weights,
                       target_weights, gridVars, envVars>>

\* agent.epsilon = e: the epsilon restored from a checkpoint's metadata
\* (train.py lines 61-66) or set by the caller
LoadEpsilon(e) ==
    /\ epsilon' = e
    /\ call' = Call("load_epsilon", 0, "none", FALSE)
    /\ UNCHANGED <<memory, remembered, train_steps, win_streak,
                   best_win_streak, total_wins, total_losses, game_outcomes,
                   recent_losses, learning_rate, model_weights,
                   target_weights, gridVars, envVars>>

\* update_target_model(): load the online weights into the target network
UpdateTargetModel ==
    /\ target_weights' = model_weights
    /\ call' = Call("update_target_model", 0, "none", FALSE)
    /\ UNCHANGED <<memory, remembered, train_steps, win_streak, best_win_streak,
                   total_wins, total_losses, game_outcomes, recent_losses,
                   epsilon, learning_rate, model_weights, gridVars, envVars>>

\* a length test that never holds the replay back
TooFewNever(mem, batch_size) == FALSE

\* line 412, len(self.memory) < batch_size
TooFew(mem, batch_size) == Len(mem) < batch_size

\* lines 445-452: epsilon after a training step
DecayedEpsilon(eps, losses) ==
    IF RatLt(epsilon_min, eps)
    THEN LET decay_rate == IF losses > 0
                           THEN RatMul(epsilon_decay, <<95, 100>>)
                           ELSE epsilon_decay
         IN  RatMul(eps, decay_rate)
    ELSE eps

\* random.sample(population, k): k distinct elements of the population; the
\* order of a sample is not followed (the loss is a mean over the batch)
RandomSamples(population, k) == {T \in SUBSET population : Cardinality(T) = k}

\* a loss sample that takes every recent negative-reward transition
LossSampleSizeAll(batch_size, k) == k

\* line 466, min(batch_size // 2, len(loss_experiences))
LossSampleSize(batch_size, k) ==
    IF batch_size \div 2 < k THEN batch_size \div 2 ELSE k

\* lines 458-462: the positions of the recent experiences (the last
\* max(1, len // 5) of the buffer) and of those with a negative reward
RecentPositions(mem) ==
    LET n == Len(mem)
        recent_size == IF n \div 5 > 1 THEN n \div 5 ELSE 1
    IN  {k \in 1..n : k > n - recent_size}

LossExperiences(mem) == {k \in RecentPositions(mem) : RatLt(mem[k].r, Zero)}

\* _sample_enhanced_batch(batch_size), called with len(memory) >= batch_size:
\* every batch it can return (neither random.sample can raise then)
sample_enhanced_batch(mem, batch_size) ==
    LET loss_experiences == LossExperiences(mem)
        loss_sample_size == LossSampleSize(batch_size, Cardinality(loss_experiences))
        remaining_size == batch_size - loss_sample_size
    IN  IF Cardinality(loss_experiences) > 0
        THEN {[loss |-> L, other |-> O, drawn |-> TRUE] :
                 L \in RandomSamples(loss_experiences, loss_sample_size),
                 O \in RandomSamples(1..Len(mem), remaining_size)}
        ELSE {[loss |-> {}, other |-> O, drawn |-> TRUE] :
                 O \in RandomSamples(1..Len(mem), batch_size)}

\* replay(batch_size) on the batch `batch`: returns at once on a short
\* memory; otherwise trains one step on the batch (random.sample leaves the
\* memory as it is)
ReplayBatch(batch_size, batch) ==
    /\ train_steps < MaxTrainSteps
    /\ IF TooFew(memory, batch_size)
       THEN UNCHANGED <<train_steps, model_weights, epsilon>>
       ELSE /\ model_weights' = model_weights + 1
            /\ train_steps' = train_steps + 1
            /\ epsilon' = DecayedEpsilon(epsilon, recent_losses)
    /\ call' = [Call("replay", batch_size, "none", FALSE) EXCEPT !.sample = batch]
    /\ UNCHANGED <<memory, remembered, win_streak, best_win_streak, total_wins,
                   total_losses, game_outcomes, recent_losses, learning_rate,
                   target_weights, gridVars, envVars>>

\* replay(batch_size) where the batch drawn is not followed
Replay(batch_size) == ReplayBatch(batch_size, NoSample)

\* replay(batch_size) with the batch _sample_enhanced_batch draws
ReplaySampled(batch_size) ==
    \E batch \in (IF TooFew(memory, batch_size) THEN {NoSample}
                  ELSE sample_enhanced_batch(memory, batch_size)) :
        ReplayBatch(batch_size, batch)

\* lines 476-478: the batches returned when the sampling raised
FallbackBatch(mem, batch_size) ==
    {[loss |-> {}, other |-> O, drawn |-> TRUE] :
        O \in RandomSamples(1..Len(mem), batch_size)}

\* a penalty computation that keeps what it had summed when it raised
apply_strategy_penalties_Partial(penalties, batch_size, fault) ==
    IF fault = "penalty" THEN penalties ELSE penalties * batch_size

\* _apply_strategy_penalties(loss, batch): what it adds to the loss, in
\* hundredths; penalties is the sum of the positive penalties held by
\* strategy_adaptation. The loss is returned as passed when an exception was
\* caught (lines 503-505)
apply_strategy_penalties(penalties, batch_size, fault) ==
    IF fault = "penalty" THEN 0 ELSE penalties * batch_size

\* replay(batch_size) with an exception raised inside one of its helpers:
\* fault is "sampling" (raised inside the try of lines 456-474), "penalty"
\* (inside the try of lines 482-501) or "none"
Faults == {"none", "sampling", "penalty"}
ReplayFault(batch_size, fault, penalties) ==
    \E batch \in (IF TooFew(memory, batch_size) THEN {NoSample}
                  ELSE IF fault = "sampling"
                       THEN FallbackBatch(memory, batch_size)
                       ELSE sample_enhanced_batch(memory, batch_size)) :
        ReplayBatch(batch_size,
                    [loss |-> batch.loss, other |-> batch.other,
                     drawn |-> batch.drawn,
                     fault |-> IF TooFew(memory, batch_size) THEN "none" ELSE fault,
                     added |-> IF TooFew(memory, batch_size) THEN 0
                               ELSE apply_strategy_penalties(penalties, batch_size,
                                                             fault)])

\* _apply_loss_punishment, lines 595-605: the memory after the punishment
\* loop, and whether the loop raised (memory[-5 + i] is out of range when
\* fewer than 5 transitions are stored: IndexError at i = 0, nothing written)
PunishRaises(mem) == Len(mem) > 0 /\ Len(mem) < 5

PunishedMemory(mem, total_reward) ==
    LET punishment_severity == Rat(Abs(total_reward), 100)
        n == Len(mem)
    IN  IF n = 0 \/ PunishRaises(mem) THEN mem
        ELSE [k \in 1..n |->
                IF k <= n - 5 THEN mem[k]
                ELSE LET i == k - (n - 5) - 1     \* position in list(memory)[-5:]
                         punishment == RatMul(RatNeg(punishment_severity),
                                              RatInt(5 - i))
                     IN  [mem[k] EXCEPT !.r = RatAdd(@, punishment)]]

\* _apply_loss_punishment line 616 (skipped when the loop above it raised),
\* then _analyze_loss lines 574-578 with the outcomes recorded before this one
LossEpsilon(eps, mem, outcomes) ==
    LET punished == IF PunishRaises(mem) THEN eps
                    ELSE RatMin(<<8, 10>>, RatAdd(eps, <<1, 10>>))
        n == Len(outcomes)
        last3 == IF n > 3 THEN {k \in (n - 2)..n : outcomes[k] = "defeat"} ELSE {}
    IN  IF n > 3 /\ Cardinality(last3) >= 2
        THEN RatMin(<<7, 10>>, RatAdd(punished, <<15, 100>>))
        ELSE punished

\* _analyze_loss lines 581-584
LossLearningRate(lr) == RatMin(<<1, 100>>, RatMul(lr, <<11, 10>>))

WinStreakAfterDefeatKeeps(outcome, streak) ==
    IF outcome = "victory" THEN streak + 1 ELSE streak

\* update_game_outcome lines 519 and 526: the streak after the call
WinStreakAfter(outcome, streak) ==
    CASE outcome = "victory" -> streak + 1
      [] outcome = "defeat" -> 0
      [] OTHER -> streak

BestWinStreakNeverRaised(outcome, streak, best) == best

\* update_game_outcome lines 521-522: the best streak follows a longer streak
BestWinStreakAfter(outcome, streak, best) ==
    IF outcome = "victory" /\ streak + 1 > best THEN streak + 1 ELSE best

\* update_game_outcome(outcome, total_reward, game_data); has_data tells
\* whether game_data is a non-empty dict
UpdateGameOutcome(outcome, total_reward, has_data) ==
    /\ Len(game_outcomes) < MaxOutcomes
    /\ win_streak' = WinStreakAfter(outcome, win_streak)
    /\ total_wins' = IF outcome = "victory" THEN total_wins + 1 ELSE total_wins
    /\ best_win_streak' = BestWinStreakAfter(outcome, win_streak, best_win_streak)
    /\ total_losses' = IF outcome = "defeat" THEN total_losses + 1 ELSE total_losses
    /\ IF outcome = "defeat" /\ has_data
       THEN /\ memory' = PunishedMemory(memory, total_reward)
            /\ recent_losses' = IF PunishRaises(memory) THEN recent_losses
                                ELSE IF recent_losses + 1 > 10 THEN 10
                                ELSE recent_losses + 1
            /\ epsilon' = LossEpsilon(epsilon, memory, game_outcomes)
            /\ learning_rate' = LossLearningRate(learning_rate)
       ELSE UNCHANGED <<memory, recent_losses, epsilon, learning_rate>>
    /\ game_outcomes' = IF Len(game_outcomes) + 1 > 20
                        THEN Tail(Append(game_outcomes, outcome))
                        ELSE Append(game_outcomes, outcome)
    /\ call' = Call("update_game_outcome", 0, outcome, has_data)
    /\ UNCHANGED <<remembered, train_steps, model_weights, target_weights,
                   gridVars, envVars>>

\* adapt_strategy_based_on_losses() for an agent without strategy or pattern
\* records: _apply_memory_learning_adjustments (lines 678-702) with the
\* recorded severities above 0.5 (every loss of 50 reward points or more),
\* then _retrain_with_loss_data, which changes nothing
AdaptStrategy ==
    /\ learning_rate' = IF recent_losses > 0
                        THEN RatMin(<<1, 100>>, RatMul(learning_rate, <<12, 10>>))
                        ELSE learning_rate
    /\ epsilon' = IF recent_losses > 5
                  THEN RatMin(<<9, 10>>, RatAdd(epsilon, <<2, 10>>))
                  ELSE epsilon
    /\ call' = Call("adapt_strategy_based_on_losses", 0, "none", FALSE)
    /\ UNCHANGED <<memory, remembered, train_steps, win_streak, best_win_streak,
                   total_wins, total_losses, game_outcomes, recent_losses,
                   model_weights, target_weights, gridVars, envVars>>

(***************************************************************************)
(* Drivers: the episode loops of train.py train() and of                   *)
(* automated_clash_bot.py run() / play_match().                            *)
(*                                                                         *)
(* train.driver  "none", "train" or "bot"                                  *)
(* train.pc      "reset" at the top of an iteration, "loop" at the while   *)
(*               test, "sync" before update_target_model (train.py line    *)
(*               259), "save" before the checkpoints of lines 260-272      *)
(* train.ep      the episodes (matches) completed                          *)
(* train.best, train.latest   the episode whose weights the file           *)
(*               best_model.pth, latest_model.pth holds (0: not written)   *)
(* train.syncs   update_target_model calls in the current iteration        *)
(* train.rewards the total reward of every completed episode, train.saved  *)
(*               the means a best checkpoint was saved for                 *)
(*                                                                         *)
(* The drivers see the environment and the agent through what the loop     *)
(* body returns: a step is an input (reward, done, trained), trained       *)
(* telling whether replay() applied an optimizer step. Of the agent only   *)
(* the two networks are followed here; its memory, epsilon and counters    *)
(* are the subject of the agent specification.                             *)
(***************************************************************************)
\* recent_rewards = deque(maxlen=50) and `len(recent_rewards) >= 10`
WindowLen == 3
EligibleLen == 2
\* episodes per run (10000), max_steps_per_episode (2000)
MaxEpisodes == 4
MaxSteps == 2
\* _save_model_if_needed: every 5 matches
SaveEvery == 5

NoTrain ==
    [driver |-> "none", pc |-> "reset", ep |-> 0, steps |-> 0, total_reward |-> 0,
     done |-> FALSE, recent_rewards |-> <<>>, best_avg_reward |-> NoneRat,
     best |-> 0, latest |-> 0, syncs |-> 0, rewards |-> <<>>, saved |-> <<>>]

RECURSIVE SumInts(_)
SumInts(s) == IF s = <<>> THEN 0 ELSE s[1] + SumInts(Tail(s))

\* sum(recent_rewards) / len(recent_rewards)
MeanOf(s) == Rat(SumInts(s), Len(s))

BestEligibleFromFirst(recent, best_avg) ==
    best_avg = NoneRat \/ RatLt(best_avg, MeanOf(recent))

\* train.py line 164; NoneRat stands for float('-inf')
BestEligible(recent, best_avg) ==
    /\ Len(recent) >= EligibleLen
    /\ best_avg = NoneRat \/ RatLt(best_avg, MeanOf(recent))

\* train.py lines 85-89, automated_clash_bot.py lines 364-368
DriverReset ==
    /\ train.driver # "none"
    /\ train.pc = "reset"
    /\ train.ep < MaxEpisodes
    /\ train' = [train EXCEPT !.pc = "loop", !.steps = 0, !.total_reward = 0,
                              !.done = FALSE, !.syncs = 0]
    /\ UNCHANGED <<gridVars, envVars, agentVars>>

\* the loop body: train.py lines 91-100, automated_clash_bot.py lines 376-392
DriverStep(reward, done, trained) ==
    /\ train.driver # "none"
    /\ train.pc = "loop"
    /\ ~train.done
    /\ train.steps < MaxSteps
    /\ model_weights' = IF trained THEN model_weights + 1 ELSE model_weights
    /\ call' = IF train.driver = "train" \/ trained
               THEN Call("replay", 32, "none", FALSE)
               ELSE Call("remember", 0, "none", FALSE)
    /\ train' = [train EXCEPT !.steps = @ + 1, !.total_reward = @ + reward,
                              !.done = done]
    /\ UNCHANGED <<memory, remembered, train_steps, win_streak, best_win_streak,
                   total_wins, total_losses, game_outcomes, recent_losses,
                   epsilon, learning_rate, target_weights, gridVars, envVars>>

\* train.py lines 102-188: the loop has ended; the moving average and the
\* best checkpoint
TrainEndEpisode ==
    /\ train.driver = "train"
    /\ train.pc = "loop"
    /\ train.done \/ train.steps >= MaxSteps
    /\ LET recent == DequeAppend(train.recent_rewards, train.total_reward, WindowLen)
           better == BestEligible(recent, train.best_avg_reward)
       IN  train' = [train EXCEPT
                       !.pc = "sync",
                       !.recent_rewards = recent,
                       !.rewards = Append(@, train.total_reward),
                       !.best_avg_reward = IF better THEN MeanOf(recent) ELSE @,
                       !.best = IF better THEN train.ep + 1 ELSE @,
                       !.saved = IF better THEN Append(@, MeanOf(recent)) ELSE @]
    /\ UNCHANGED <<gridVars, envVars, agentVars>>

\* train.py line 259
TrainSync ==
    /\ train.driver = "train"
    /\ train.pc = "sync"
    /\ UpdateTargetModel
    /\ train' = [train EXCEPT !.pc = "save", !.syncs = @ + 1]

\* train.py lines 260-272: the timestamped and the latest checkpoint
TrainSave ==
    /\ train.driver = "train"
    /\ train.pc = "save"
    /\ train' = [train EXCEPT !.pc = "reset", !.ep = @ + 1, !.latest = train.ep + 1]
    /\ UNCHANGED <<gridVars, envVars, agentVars>>

\* automated_clash_bot.py lines 402-434: the match has ended
BotEndMatch ==
    /\ train.driver = "bot"
    /\ train.pc = "loop"
    /\ train.done \/ train.steps >= MaxSteps
    /\ train' = [train EXCEPT
                    !.pc = "reset", !.ep = @ + 1,
                    !.rewards = Append(@, train.total_reward),
                    !.latest = IF (train.ep + 1) % SaveEvery = 0
                               THEN train.ep + 1 ELSE @]
    /\ UNCHANGED <<gridVars, envVars, agentVars>>

\* ---- the match loops with their outcome report, stop requests and
\* failures. Further fields of train:
\*   calls     step() calls made in the current episode
\*   flag      the result the terminal step read from game_over_flag
\*   outcome   what the last match was classified as; reported tells whether
\*             update_game_outcome was called with it
\*   errors    consecutive_errors of run(); stop: a stop was requested
\* max_steps_per_episode / max_steps (2000), and the step() calls followed
MaxMatchSteps == 32
MaxCalls == MaxMatchSteps + 1
max_consecutive_errors == 5

NoDrive(d) ==
    [driver |-> d, pc |-> "reset", ep |-> 0, steps |-> 0, total_reward |-> 0,
     done |-> FALSE, calls |-> 0, flag |-> None, outcome |-> "none",
     reported |-> FALSE, errors |-> 0, stop |-> FALSE]

\* train.py lines 81-89; automated_clash_bot.py lines 496-501 and 364-368
DriveReset ==
    /\ train.pc = "reset"
    /\ ~train.stop
    /\ train.ep < MaxEpisodes
    /\ train' = [train EXCEPT !.pc = "loop", !.steps = 0, !.total_reward = 0,
                              !.done = FALSE, !.calls = 0, !.flag = None]
    /\ UNCHANGED <<gridVars, envVars, agentVars>>

\* one pass of the loop body in which step() returned (reward, done): result
\* is what the terminal return read from the flag, None on the other returns
DriveStep(reward, result) ==
    /\ train.pc = "loop"
    /\ ~train.done
    /\ train.steps < MaxMatchSteps
    /\ train.driver = "bot" => ~train.stop
    /\ train' = [train EXCEPT !.steps = @ + 1, !.calls = @ + 1,
                              !.total_reward = @ + reward,
                              !.done = Truthy(result), !.flag = result]
    /\ UNCHANGED <<gridVars, envVars, agentVars>>

\* one pass of the loop body in which step() raised: play_match prints and
\* continues (lines 395-398), train() has no handler
DriveStepRaises ==
    /\ train.pc = "loop"
    /\ ~train.done
    /\ train.steps < MaxMatchSteps
    /\ train.calls < MaxCalls
    /\ train.driver = "bot" => ~train.stop
    /\ train' = IF train.driver = "bot"
                THEN [train EXCEPT !.calls = @ + 1]
                ELSE [train EXCEPT !.calls = @ + 1, !.pc = "crashed"]
    /\ UNCHANGED <<gridVars, envVars, agentVars>>

\* train.py lines 103-111, automated_clash_bot.py lines 406-418
GameOutcome(driver, done, total_reward, flag) ==
    IF done
    THEN IF total_reward > 50 THEN "victory"
         ELSE IF total_reward < 0 - 50 THEN "defeat"
         ELSE "draw"
    ELSE IF driver = "bot" THEN "timeout" ELSE "unknown"

\* the loop has ended: the outcome is classified and reported to the agent
\* (train.py lines 102-133, only when it is not "unknown";
\* automated_clash_bot.py lines 402-434), and run() clears its error count
\* (lines 506-507)
DriveEndMatch ==
    /\ train.pc = "loop"
    /\ \/ train.done
       \/ train.steps >= MaxMatchSteps
       \/ train.driver = "bot" /\ train.stop
    /\ LET outcome == GameOutcome(train.driver, train.done, train.total_reward,
                                  train.flag)
       IN  train' = [train EXCEPT !.pc = "reset", !.ep = @ + 1,
                                  !.outcome = outcome,
                                  !.reported = outcome # "unknown",
                                  !.errors = 0]
    /\ UNCHANGED <<gridVars, envVars, agentVars>>

\* a counter that is never cleared by the long break
ErrorsAfterNoBreak(errors) == errors + 1

\* run() lines 508-515: one more error, cleared after the long break
ErrorsAfter(errors) ==
    IF errors + 1 >= max_consecutive_errors THEN 0 ELSE errors + 1

\* play_match caught an exception outside the step loop (env.reset(),
\* update_game_outcome or the checkpoint raised) and returned "error"
\* (lines 436-438); run() counts it
BotMatchError ==
    /\ train.driver = "bot"
    /\ train.pc \in {"reset", "loop"}
    /\ train.pc = "reset" => ~train.stop
    /\ train' = [train EXCEPT !.pc = "reset", !.outcome = "error",
                              !.reported = FALSE,
                              !.errors = ErrorsAfter(train.errors)]
    /\ UNCHANGED <<gridVars, envVars, agentVars>>

\* request_stop() (automated_clash_bot.py line 48), or the exit request
\* train() polls at line 81
RequestStop ==
    /\ ~train.stop
    /\ train.pc \in {"reset", "loop"}
    /\ train' = [train EXCEPT !.stop = TRUE]
    /\ UNCHANGED <<gridVars, envVars, agentVars>>

\* the while test of run() (line 496) fails; train() breaks at line 83 or
\* has run every episode
DriveLeave ==
    /\ train.pc = "reset"
    /\ train.stop \/ (train.driver = "train" /\ train.ep >= MaxEpisodes)
    /\ train' = [train EXCEPT !.pc = "stopped"]
    /\ UNCHANGED <<gridVars, envVars, agentVars>>

(***************************************************************************)
(* Specifications                                                          *)
(***************************************************************************)
GridUnbuilt ==
    /\ constructed = "no"
    /\ available_actions = <<>>
    /\ lookup = NoLookup

\* ClashRoyaleEnv.__init__, lines 40-54
EnvInit ==
    /\ current_cards = <<>>
    /\ game_over_flag = None
    /\ endgame_thread = 0
    /\ endgame_thread_stop = FALSE
    /\ threads = <<>>
    /\ prev_elixir = NoneRat
    /\ prev_enemy_presence = NoneRat
    /\ prev_enemy_princess_towers = NoneCount
    /\ match_over_detected = FALSE
    /\ trophy_road_detected = FALSE
    /\ in_battle = FALSE
    /\ on_home_screen = FALSE
    /\ mainpc = "idle"
    /\ ret = NoRet

\* DQNAgent.__init__
AgentInit ==
    /\ memory = <<>>
    /\ remembered = <<>>
    /\ train_steps = 0
    /\ win_streak = 0
    /\ best_win_streak = 0
    /\ total_wins = 0
    /\ total_losses = 0
    /\ game_outcomes = <<>>
    /\ recent_losses = 0
    /\ epsilon = RatInt(1)
    /\ learning_rate = <<1, 1000>>
    /\ model_weights = 0
    /\ target_weights = 0
    /\ call = NoCall

\* ---- the action space for every grid up to MaxGrid x MaxGrid
InitActions ==
    /\ grid_width \in 1..MaxGrid
    /\ grid_height \in 1..MaxGrid
    /\ GridUnbuilt
    /\ config = AllSet
    /\ EnvInit
    /\ AgentInit
    /\ train = NoTrain

NextActions ==
    \/ Construct
    \/ \E i \in 0..(num_cards * MaxGrid * MaxGrid) : Decode(i)

SpecActions == InitActions /\ [][NextActions]_vars

\* ---- the environment, constructed with an EnvGrid x EnvGrid grid
Init ==
    /\ grid_width = EnvGrid
    /\ grid_height = EnvGrid
    /\ constructed = "ok"
    /\ available_actions = get_available_actions(EnvGrid, EnvGrid)
    /\ lookup = NoLookup
    /\ config = AllSet
    /\ EnvInit
    /\ AgentInit
    /\ train = NoTrain

\* The driver's action indices: one placement per card slot, each in another
\* cell, and the no-op
Args == {c * EnvGrid * EnvGrid + (c % (EnvGrid * EnvGrid)) : c \in {0, 2}}
            \cup {num_cards * EnvGrid * EnvGrid}

\* <<screen, mo>>: the screen classification and the later detect_match_over
\* (line 235, not evaluated after a post_match classification)
Views == {<<"post_match", FALSE>>, <<"in_battle", FALSE>>, <<"in_battle", TRUE>>,
          <<"unknown", FALSE>>, <<"unknown", TRUE>>}

\* <<sR, sN>>: the scene at the captures before the last one of a step
\* (lines 293, 308, 316 / 245) and the scene at the last capture (317 / 254);
\* the elixir counter reads the same at both
StepScenes(SS) == {sc \in SS \X SS : sc[1].elixir = sc[2].elixir}

\* step() with action indices A, views V, hands H and scenes SS
Step(A, V, H, SS) ==
    \/ \E arg \in A, sN \in SS : StepHome(arg, sN)
    \/ \E arg \in A, screen \in {v[1] : v \in V}, sN \in SS :
          StepTrophy(arg, screen, sN)
    \/ \E arg \in A, screen \in {v[1] : v \in V}, sc \in StepScenes(SS) :
          StepTerminal(arg, screen, sc[1], sc[2])
    \/ \E arg \in A, v \in V, hand \in {h \in H : AllUnknown(h)}, sN \in SS :
          StepNoHand(arg, v[1], v[2], hand, sN)
    \/ \E arg \in A, v \in V, hand \in {h \in H : ~AllUnknown(h)},
          sc \in StepScenes(SS) :
          StepPlay(arg, v[1], v[2], hand, sc[1], sc[1].frame, sc[1], sc[2])

Watcher ==
    \E t \in 1..Len(threads) :
        \/ WatcherCheck(t)
        \/ \E result \in Results \cup {None} : WatcherPoll(t, result)
        \/ WatcherSleep(t)
        \/ WatcherWrite(t)

\* Control flow and threads: every screen, hand and action index, any
\* interleaving of up to MaxResets watcher threads, one scene
CtlScenes == {[frame |-> "few", elixir |-> 5]}

\* Threads: reset() and close() at any time, a driver that plays slot 0
ThreadArgs == {0}
ThreadViews == {<<"in_battle", FALSE>>, <<"post_match", FALSE>>}
ThreadHands == {HandUnknown, HandKnown}

Next ==
    \/ \E scene \in CtlScenes :
          Len(threads) < MaxResets /\ Reset(scene.frame, scene)
    \/ Step(ThreadArgs, ThreadViews, ThreadHands, CtlScenes)
    \/ Close
    \/ CloseJoin
    \/ Watcher

Spec == Init /\ [][Next]_vars


EpisodeOver == ret.op = "init" \/ (ret.op = "step" /\ ret.done)

\* Control flow: every action index class, view and hand; reset() is called
\* first and then after each episode that step() ended with done=True
NextCtl ==
    \/ \E scene \in CtlScenes :
          Len(threads) < MaxResets /\ EpisodeOver /\ Reset(scene.frame, scene)
    \/ Step(Args, Views, Hands, CtlScenes)
    \/ Watcher

SpecCtl == Init /\ [][NextCtl]_vars

\* ---- progress: a driver that calls reset() first and after each finished
\* episode, steps with slot 0 and may close the environment, under the
\* scheduling the program has: every started watcher thread keeps running
\* (threading.Thread, env.py 119-120) and the driver keeps calling step()
\* while the environment is open (the loops of train.py 86-101 and
\* automated_clash_bot.py 370-400)
LiveViews == {<<"in_battle", FALSE>>, <<"post_match", FALSE>>}
LiveHands == {HandUnknown, HandKnown}

WatcherStep(t) ==
    /\ t \in 1..Len(threads)
    /\ \/ WatcherCheck(t)
       \/ \E result \in Results \cup {None} : WatcherPoll(t, result)
       \/ WatcherSleep(t)
       \/ WatcherWrite(t)

StepLoop == Step(ThreadArgs, LiveViews, LiveHands, CtlScenes)

NextLive ==
    \/ \E scene \in CtlScenes :
          Len(threads) < MaxResets /\ EpisodeOver /\ Reset(scene.frame, scene)
    \/ StepLoop
    \/ Close
    \/ CloseJoin
    \/ Watcher

\* StepLoop can change the state exactly when the environment is idle (the
\* home-screen and the unknown-hand returns differ), so the second conjunct
\* is WF_vars(StepLoop) with its ENABLED written out
Fairness ==
    /\ \A t \in 1..MaxResets : WF_vars(WatcherStep(t))
    /\ ([]<>(mainpc # "idle") \/ []<><<StepLoop>>_vars)

SpecLive == Init /\ [][NextLive]_vars /\ Fairness

\* Data flow: every scene; a driver that plays the spell card of slot 0 and
\* calls reset() first and then after each episode that step() ended with
\* done=True
DataArgs == {0}
DataViews == {<<"in_battle", FALSE>>, <<"post_match", FALSE>>}
DataHands == {HandUnknown, HandKnown}
DataScenes == {[frame |-> "empty", elixir |-> 5], [frame |-> "few", elixir |-> 5],
               [frame |-> "many", elixir |-> 3]}


NextData ==
    \/ \E scene \in DataScenes :
          Len(threads) < MaxResets /\ EpisodeOver /\ Reset(scene.frame, scene)
    \/ Step(DataArgs, DataViews, DataHands, DataScenes)
    \/ Watcher

SpecData == Init /\ [][NextData]_vars

\* ---- the match loops: a step returns +5 (home screen) and the episode goes
\* on, or it returns the terminal reward of a victory or a defeat
DriveOutcomes == {<<5, None>>, <<100, "victory">>, <<0 - 100, "defeat">>}

InitDrive ==
    /\ grid_width = EnvGrid
    /\ grid_height = EnvGrid
    /\ constructed = "ok"
    /\ available_actions = get_available_actions(EnvGrid, EnvGrid)
    /\ lookup = NoLookup
    /\ config = AllSet
    /\ EnvInit
    /\ AgentInit
    /\ train \in {NoDrive(d) : d \in {"train", "bot"}}

NextDrive ==
    \/ DriveReset
    \/ \E so \in DriveOutcomes : DriveStep(so[1], so[2])
    \/ DriveStepRaises
    \/ DriveEndMatch
    \/ BotMatchError
    \/ RequestStop
    \/ DriveLeave

SpecDrive == InitDrive /\ [][NextDrive]_vars

\* ---- spells: one detector output with an enemy unit in the bottom right
\* corner of the field; the driver plays slot 0 (Fireball) and slot 1
\* (Knight) in the first and in the last cell of the grid, or the no-op
SpellArgs == {0, EnvGrid * EnvGrid - 1, EnvGrid * EnvGrid,
              2 * EnvGrid * EnvGrid - 1, num_cards * EnvGrid * EnvGrid}
SpellScenes == {[frame |-> "aimed", elixir |-> 5]}

NextSpell ==
    \/ \E scene \in SpellScenes :
          Len(threads) < MaxResets /\ EpisodeOver /\ Reset(scene.frame, scene)
    \/ Step(SpellArgs, DataViews, DataHands, SpellScenes)
    \/ Watcher

SpecSpell == Init /\ [][NextSpell]_vars

\* ---- configuration: the environment constructed, reset and stepped with
\* any of the three identifiers unset. The driver calls reset() on a
\* constructed environment, first and after each finished episode, and
\* step() after a reset() that returned (train.py lines 48, 85-92);
\* detect_cards_in_hand returns [] when the card workspace is unset.
Configs == {AllSet, [AllSet EXCEPT !.api_key = FALSE],
            [AllSet EXCEPT !.troop = FALSE], [AllSet EXCEPT !.card = FALSE]}

InitConfig ==
    /\ grid_width = EnvGrid
    /\ grid_height = EnvGrid
    /\ GridUnbuilt
    /\ config \in Configs
    /\ EnvInit
    /\ AgentInit
    /\ train = NoTrain

ResetReturned == ret.op \in {"reset", "step"} /\ ret.path # "ValueError"

NextConfig ==
    \/ Construct
    \/ \E scene \in CtlScenes :
          /\ constructed = "ok"
          /\ Len(threads) < MaxResets
          /\ EpisodeOver \/ ~ResetReturned
          /\ Reset(scene.frame, scene)
    \/ /\ ResetReturned
       /\ Step(ThreadArgs, ThreadViews,
               IF CardWorkspaceMissing(config) THEN {HandError} ELSE ThreadHands,
               CtlScenes)
    \/ Watcher

SpecConfig == InitConfig /\ [][NextConfig]_vars

\* ---- the drivers: step rewards with done, and whether replay trained
StepOutcomes == {<<0, FALSE>>, <<60, TRUE>>, <<0 - 60, TRUE>>}

InitTrain ==
    /\ grid_width = EnvGrid
    /\ grid_height = EnvGrid
    /\ constructed = "ok"
    /\ available_actions = get_available_actions(EnvGrid, EnvGrid)
    /\ lookup = NoLookup
    /\ config = AllSet
    /\ EnvInit
    /\ AgentInit
    /\ train \in {[NoTrain EXCEPT !.driver = d] : d \in {"train", "bot"}}

NextTrain ==
    \/ DriverReset
    \/ \E so \in StepOutcomes, trained \in BOOLEAN : DriverStep(so[1], so[2], trained)
    \/ TrainEndEpisode
    \/ TrainSync
    \/ TrainSave
    \/ BotEndMatch

SpecTrain == InitTrain /\ [][NextTrain]_vars

\* ---- the reward model on synthetic state vectors: an elixir reading, no
\* allies, and enemies at the given normalised heights
SynthState(elixir, ys) ==
    <<Rat(elixir, 10)>>
      \o [i \in 1..(2 * MAX_ALLIES) |-> Zero]
      \o [i \in 1..(2 * MAX_ENEMIES) |->
            IF (i + 1) \div 2 > Len(ys) THEN Zero
            ELSE IF i % 2 = 1 THEN <<1, 2>> ELSE ys[(i + 1) \div 2]]
SynthElixirs == {3, 5, 8}
SynthHeights == {<<>>, << <<1, 10>> >>, << <<3, 10>> >>, << <<8, 10>> >>,
                 << <<1, 2>>, <<1, 2>> >>}
SynthStates == {SynthState(e, ys) : e \in SynthElixirs, ys \in SynthHeights}

NextReward == \E state \in SynthStates \cup {<<>>} : ComputeReward(state)

SpecReward == Init /\ [][NextReward]_vars

\* ---- the agent's memory and outcome bookkeeping
InitAgent ==
    /\ grid_width = EnvGrid
    /\ grid_height = EnvGrid
    /\ GridUnbuilt
    /\ config = AllSet
    /\ EnvInit
    /\ AgentInit
    /\ train = NoTrain

\* remember() inputs (reward, done); update_game_outcome and replay inputs
Remembered == {<<RatInt(1), FALSE>>, <<RatInt(-1), TRUE>>}
TotalRewards == {-250}
BatchSizes == {2, 32}

NextAgent ==
    \/ \E rd \in Remembered : Remember(rd[1], rd[2]) /\ UNCHANGED train
    \/ \E b \in BatchSizes : Replay(b) /\ UNCHANGED train
    \/ \E outcome \in {"victory", "defeat", "draw"}, total \in TotalRewards,
          has_data \in BOOLEAN :
          UpdateGameOutcome(outcome, total, has_data) /\ UNCHANGED train

SpecAgent == InitAgent /\ [][NextAgent]_vars

\* ---- batch sampling: replay on a buffer of up to MaxStored transitions
\* with batch sizes up to MaxBatch (1 to 10000 and 32 in the code). The rewards of the oldest transition and
\* of the three newest are negative or positive, the others positive.
MaxStored == 10
MaxBatch == 4

StoredMemory(n, negative) ==
    [k \in 1..n |-> [id |-> k, r |-> IF k \in negative THEN RatInt(-1) ELSE RatInt(1),
                     done |-> FALSE]]

StoredMemories ==
    UNION {{StoredMemory(n, negative) :
               negative \in SUBSET ({1, n - 2, n - 1, n} \cap 1..n)} :
           n \in 1..MaxStored}

InitSample ==
    /\ grid_width = EnvGrid
    /\ grid_height = EnvGrid
    /\ GridUnbuilt
    /\ config = AllSet
    /\ EnvInit
    /\ memory \in StoredMemories
    /\ remembered = memory
    /\ train_steps = 0
    /\ win_streak = 0
    /\ best_win_streak = 0
    /\ total_wins = 0
    /\ total_losses = 0
    /\ game_outcomes = <<>>
    /\ recent_losses = 0
    /\ epsilon = RatInt(1)
    /\ learning_rate = <<1, 1000>>
    /\ model_weights = 0
    /\ target_weights = 0
    /\ call = NoCall
    /\ train = NoTrain

\* one replay per stored buffer: a replay leaves the buffer as it is, so a
\* second one draws from the same batches
NextSample ==
    \E b \in 1..MaxBatch :
        call.op = "init" /\ ReplaySampled(b) /\ UNCHANGED train

SpecSample == InitSample /\ [][NextSample]_vars

\* ---- action selection by a newly constructed agent
ActElixirs == {2, 5, 9}
ActScenes == [frame : Frames, elixir : ActElixirs]
action_size == num_cards * EnvGrid * EnvGrid + 1
\* Q-vectors: one largest value at index top, a second value above 0.7 at
\* index 1, the rest at most 0
QVector(top, low) ==
    [k \in 1..action_size |->
        IF k = top + 1 THEN <<9, 10>>
        ELSE IF k = 2 THEN <<8, 10>>
        ELSE IF k = 1 THEN low ELSE RatNeg(<<1, 2>>)]
QVectors == {QVector(top, low) : top \in {0, 3, action_size - 1},
                                 low \in {Zero, <<1, 2>>}}
Epsilons == {Zero, <<1, 2>>}
Uniforms == {Zero, <<3, 4>>}
Randoms == {0, 5}

NextAct ==
    \/ \E e \in Epsilons : LoadEpsilon(e) /\ UNCHANGED train
    \/ \E u \in Uniforms, rnd \in Randoms, scene \in ActScenes, q \in QVectors :
          Act(u, rnd, scene, q) /\ UNCHANGED train

SpecAct == InitAgent /\ [][NextAct]_vars

\* ---- failing helpers: an agent holding a buffer of 3 or 5 transitions
\* whose override layer, loss analysis, batch sampling and penalty
\* computation can raise; one training step is followed
FaultMemories == {StoredMemory(n, {n}) : n \in {3, 5}}
FaultBatches == {2, 4}
FaultPenalties == {0, 15}
FaultScenes == {[frame |-> "few", elixir |-> 2], [frame |-> "aimed", elixir |-> 9]}

InitFault ==
    /\ grid_width = EnvGrid
    /\ grid_height = EnvGrid
    /\ GridUnbuilt
    /\ config = AllSet
    /\ EnvInit
    /\ memory \in FaultMemories
    /\ remembered = memory
    /\ train_steps = 0
    /\ win_streak = 0
    /\ best_win_streak = 0
    /\ total_wins = 0
    /\ total_losses = 0
    /\ game_outcomes = <<>>
    /\ recent_losses = 0
    /\ epsilon = <<1, 2>>
    /\ learning_rate = <<1, 1000>>
    /\ model_weights = 0
    /\ target_weights = 0
    /\ call = NoCall
    /\ train = NoTrain

NextFault ==
    \/ \E u \in Uniforms, scene \in FaultScenes :
          Act(u, 0, scene, QVector(3, Zero)) /\ UNCHANGED train
    \/ \E outcome \in {"victory", "defeat"}, total \in TotalRewards,
          has_data \in BOOLEAN :
          UpdateGameOutcome(outcome, total, has_data) /\ UNCHANGED train
    \/ \E b \in FaultBatches, fault \in Faults, penalties \in FaultPenalties :
          train_steps = 0 /\ ReplayFault(b, fault, penalties) /\ UNCHANGED train

SpecFault == InitFault /\ [][NextFault]_vars

\* ---- exploration rate: an agent as constructed, or after the 1532 replays
\* that take epsilon from 1.0 to 0.0100226 (0.997^1532, here to five
\* places), with no loss or six losses on record. The driver calls
\* adapt_strategy_based_on_losses after update_game_outcome (train.py lines
\* 133 and 148); one replay is followed.
EpsilonNearMin == <<501, 50000>>

InitEps ==
    /\ grid_width = EnvGrid
    /\ grid_height = EnvGrid
    /\ GridUnbuilt
    /\ config = AllSet
    /\ EnvInit
    /\ memory \in FaultMemories
    /\ remembered = memory
    /\ train_steps = 0
    /\ win_streak = 0
    /\ best_win_streak = 0
    /\ total_wins = 0
    /\ total_losses = 0
    /\ game_outcomes = <<>>
    /\ recent_losses \in {0, 6}
    /\ epsilon \in {RatInt(1), EpsilonNearMin}
    /\ learning_rate = <<1, 1000>>
    /\ model_weights = 0
    /\ target_weights = 0
    /\ call = NoCall
    /\ train = NoTrain

NextEps ==
    \/ train_steps = 0 /\ Replay(2) /\ UNCHANGED train
    \/ \E outcome \in {"victory", "defeat"}, total \in TotalRewards,
          has_data \in BOOLEAN :
          UpdateGameOutcome(outcome, total, has_data) /\ UNCHANGED train
    \/ call.op = "update_game_outcome" /\ AdaptStrategy /\ UNCHANGED train

SpecEps == InitEps /\ [][NextEps]_vars

(***************************************************************************)
(* Properties                                                              *)
(***************************************************************************)
\* The action expected at 0-based index i of a W x H grid
ExpectedAction(i, W, H) ==
    IF i = num_cards * W * H THEN NoOp
    ELSE <<i \div (W * H), Rat((i % (W * H)) \div H, W - 1), Rat(i % H, H - 1)>>

\* C2: for every positive grid_width and grid_height, construction builds a
\* list of exactly 4 * grid_width * grid_height + 1 actions, no two of them
\* the same (card_slot, x_frac, y_frac) tuple, and a lookup returns the tuple
\* enumerated at that index.  (Violated: a grid one cell wide or high makes
\* construction raise ZeroDivisionError and no list is built.)
C2_ActionListBuilt ==
    constructed # "no" =>
        /\ constructed = "ok"
        /\ Len(available_actions) = num_cards * grid_width * grid_height + 1
        /\ \A i, j \in 1..Len(available_actions) :
              ActionEq(available_actions[i], available_actions[j]) => i = j
        /\ lookup.index # -1 => lookup.action = available_actions[lookup.index + 1]

\* C3: the action index ordering is card-major, then x, then y: in a
\* constructed environment index i < 4*W*H holds card i div (W*H), x cell
\* (i mod (W*H)) div H and y cell i mod H, the last index holds the no-op
\* (-1, 0, 0), and a lookup returns the action that W, H and the index
\* determine.
C3_IndexOrdering ==
    constructed = "ok" =>
        /\ Len(available_actions) = num_cards * grid_width * grid_height + 1
        /\ \A i \in 0..(num_cards * grid_width * grid_height) :
              available_actions[i + 1] = ExpectedAction(i, grid_width, grid_height)
        /\ lookup.index # -1 =>
              lookup.action = ExpectedAction(lookup.index, grid_width, grid_height)

\* a lookup in a 2 x 3 grid of an index whose x cell and y cell differ
C3_LookedUp ==
    /\ constructed = "ok"
    /\ grid_width = 2
    /\ grid_height = 3
    /\ lookup.index = 10
    /\ lookup.action = <<1, <<1, 1>>, <<1, 2>>>>

\* The non-tower detections of one side that carry coordinates, in detector order
UnitsOf(predictions, side) ==
    SelectSeq(predictions,
              LAMBDA p : p.side = side /\ p.hasxy /\ <<p.side, p.name>> \notin TOWER_CLASSES)

\* The k-th (x, y) slot of one side: the k-th unit scaled to the field, or (0, 0)
SlotOf(units, k) ==
    IF k <= Len(units)
    THEN <<Rat(units[k].x, WIDTH), Rat(units[k].y, HEIGHT)>>
    ELSE <<Zero, Zero>>

\* C1: the state vector returned by reset() and by every return path of
\* step() has exactly 41 = 1 + 4*10 entries: entry 0 is elixir/10, then the
\* first 10 non-tower ally detections in detector order, then the first 10
\* non-tower enemy detections in detector order, unused slots (0, 0); zero
\* predictions with elixir 5 give [0.5, 0, ..., 0].
C1_StateVector ==
    ret.op \in {"reset", "step"} =>
        LET predictions == FrameOf(ret.seen.frame)
            allies == UnitsOf(predictions, "ally")
            enemies == UnitsOf(predictions, "enemy")
            v == ret.state
        IN  /\ Len(v) = 41
            /\ v[1] = Rat(ret.seen.elixir, 10)
            /\ \A k \in 1..10 : <<v[2 * k], v[2 * k + 1]>> = SlotOf(allies, k)
            /\ \A k \in 1..10 : <<v[20 + 2 * k], v[21 + 2 * k]>> = SlotOf(enemies, k)
            /\ (predictions = <<>> /\ ret.seen.elixir = 5) =>
                   v = <<<<1, 2>>>> \o [i \in 1..40 |-> Zero]

\* a step() returned the state of a frame with more than 10 units per side
C1_Truncated ==
    /\ ret.op = "step"
    /\ ret.path = "play"
    /\ Len(UnitsOf(FrameOf(ret.seen.frame), "ally")) > 10
    /\ Len(UnitsOf(FrameOf(ret.seen.frame), "enemy")) > 10

\* C4: step() returns done=true only in a call that found the terminal flag
\* set by the watcher (victory or defeat); no step count, screen state or
\* hand identification outcome makes it return done=true.
C4_DoneOnlyByFlag ==
    ret.done => (ret.op = "step" /\ ret.path = "terminal" /\ ret.flag \in Results)

\* a step() returned done=true on a defeat
C4_DoneReturned ==
    ret.op = "step" /\ ret.done /\ ret.flag = "defeat"

\* C5 as stated: a step() called while the flag holds victory or defeat
\* returns done=true with the terminal reward and plays no card, whatever the
\* action index and whatever the screen.
C5_TerminalWhateverScreen ==
    (ret.op = "step" /\ ret.flag \in Results) =>
        /\ ret.done
        /\ ret.terms.terminal = RatInt(IF ret.flag = "victory" THEN 100 ELSE -100)
        /\ ~ret.key
        /\ ret.card = -1

\* C5: a step() called while the flag holds victory or defeat plays no card
\* and returns done=true with the terminal reward, unless the screen is the
\* home screen (reward 5, done=false) or trophy road is detected for the
\* first time in the episode (reward 10, done=false).
C5_TerminalUnlessScreen ==
    (ret.op = "step" /\ ret.flag \in Results) =>
        /\ ~ret.key
        /\ ret.card = -1
        /\ \/ ret.path = "home" /\ ~ret.done /\ ret.reward = RatInt(5)
           \/ ret.path = "trophy" /\ ~ret.done /\ ret.reward = RatInt(10)
           \/ /\ ret.path = "terminal"
              /\ ret.done
              /\ ret.terms.terminal = RatInt(IF ret.flag = "victory" THEN 100 ELSE -100)
              /\ ret.click = "none"

\* a step() asked to play the card of slot 0 found the defeat flag
C5_FlagFound ==
    /\ ret.op = "step"
    /\ ret.flag = "defeat"
    /\ ret.path = "terminal"
    /\ available_actions[ret.arg + 1][1] = 0

\* C6: after close() has returned no watcher thread started by the
\* environment is still running (so none polls or writes the flag).
C6_NoWatcherAfterClose ==
    mainpc = "closed" => \A t \in 1..Len(threads) : threads[t].pc = "exited"

\* C7: at every moment at most one watcher thread started by the
\* environment is alive.
C7_AtMostOneWatcher ==
    Cardinality({t \in 1..Len(threads) : threads[t].pc # "exited"}) <= 1

\* C8: reset() sets the flag to None, match_over_detected and
\* trophy_road_detected to false, prev_elixir and prev_enemy_presence to
\* None and re-reads the enemy princess tower count; the first step after
\* it has no defensive, defense-success or efficiency term, and a tower term
\* only if the count fell below the one reset() read.
C8_ResetClears ==
    [][ /\ (ret'.op = "reset" /\ ret.op # "reset") =>
              /\ game_over_flag' = None
              /\ ~match_over_detected'
              /\ ~trophy_road_detected'
              /\ prev_elixir' = NoneRat
              /\ prev_enemy_presence' = NoneRat
              /\ prev_enemy_princess_towers' = ret'.towers
        /\ (ret.op = "reset" /\ ret'.op = "step") =>
              /\ ret'.terms.defensive = Zero
              /\ ret'.terms.success = Zero
              /\ ret'.terms.efficiency = Zero
              /\ ret'.terms.tower # Zero => ret'.towers < ret.towers ]_vars

\* the first step of a second episode went through the reward computation on
\* a scene with less elixir than any scene with that many enemies
C8_SecondEpisodeFirstStep ==
    /\ Len(threads) = 2
    /\ ret.op = "step"
    /\ ret.first
    /\ ret.path = "play"
    /\ ret.seen.elixir = 3

\* The card slot of the action that a hand-reading step() decodes
DecodedSlot == available_actions[ret.index + 1][1]

\* C9 as stated: a step whose decoded slot is not smaller than the number
\* of hand cards identified issues no key press and no pointer click and
\* returns reward 0 and done=false.
C9_InvalidSlotNoClick ==
    (ret.op = "step" /\ ret.path \in {"no_hand", "play"}
        /\ DecodedSlot >= Len(current_cards)) =>
        /\ ~ret.key
        /\ ret.click = "none"
        /\ ret.reward = Zero
        /\ ~ret.done

\* C9: a step whose decoded slot is not smaller than the number of hand
\* cards identified presses no card key and returns reward 0 and done=false;
\* its only pointer click is the neutral centre click, issued when the
\* environment believes it is in battle.
C9_InvalidSlotNoPlay ==
    (ret.op = "step" /\ ret.path \in {"no_hand", "play"}
        /\ DecodedSlot >= Len(current_cards)) =>
        /\ ~ret.key
        /\ ret.card = -1
        /\ ret.reward = Zero
        /\ ~ret.done
        /\ ret.click = (IF in_battle THEN "centre" ELSE "none")

\* a step asked for slot 2 in battle while hand identification had failed
C9_SlotBeyondHand ==
    /\ ret.op = "step"
    /\ ret.path = "no_hand"
    /\ current_cards = <<>>
    /\ DecodedSlot = 2
    /\ in_battle
    /\ ret.click = "centre"

\* The part of the remember() log that a buffer of MemoryMaxLen holds
RecentRemembered ==
    LET n == Len(remembered)
        m == IF n < MemoryMaxLen THEN n ELSE MemoryMaxLen
    IN  SubSeq(remembered, n - m + 1, n)

\* C10 as stated: the buffer holds at most the capacity and is exactly the
\* most recent min(n, capacity) remembered transitions in insertion order.
C10_BufferIsRecentLog ==
    /\ Len(memory) <= MemoryMaxLen
    /\ memory = RecentRemembered

\* C10: the buffer holds at most the capacity; a remember on a full buffer
\* evicts exactly the oldest transition; the buffer holds the most recent
\* min(n, capacity) remembered transitions in insertion order, each with the
\* state, action, next state and done flag it was remembered with and a
\* reward that is the remembered one or one lowered by loss punishment.
C10_BufferHoldsRecent ==
    /\ Len(memory) <= MemoryMaxLen
    /\ Len(memory) = Len(RecentRemembered)
    /\ \A k \in 1..Len(memory) :
          /\ memory[k].id = RecentRemembered[k].id
          /\ memory[k].done = RecentRemembered[k].done
          /\ ~RatLt(RecentRemembered[k].r, memory[k].r)

\* the buffer overflowed and a defeat lowered the reward of its newest entry
C10_EvictedAndPunished ==
    /\ Len(remembered) > MemoryMaxLen
    /\ Len(memory) = MemoryMaxLen
    /\ RatLt(memory[Len(memory)].r, remembered[Len(remembered)].r)

\* ---- replay and the outcome counters (`call` names the last agent call)

\* C11: replay(batch_size) called while fewer than batch_size transitions are
\* stored changes nothing: online and target weights, epsilon, train_steps,
\* the optimizer's learning rate and the replay buffer are all unchanged.
C11_ShortReplayNoOp ==
    [][(call'.op = "replay" /\ Len(memory) < call'.batch)
          => UNCHANGED <<model_weights, target_weights, epsilon, train_steps,
                         learning_rate, memory>>]_vars

\* replay(32) has just returned on a buffer holding some, but fewer than 32,
\* transitions
C11_ShortReplayDone ==
    /\ call.op = "replay"
    /\ call.batch = 32
    /\ Len(memory) > 0
    /\ Len(memory) < call.batch

C13_DefeatCounts ==
    [][(call'.op = "update_game_outcome" /\ call'.outcome = "defeat")
          => /\ win_streak' = 0
             /\ total_losses' = total_losses + 1
             /\ UNCHANGED <<total_wins, best_win_streak>>]_vars

\* a defeat with game data has just ended a streak while the punishment of
\* the buffer raised (fewer than five transitions stored)
C13_DefeatAnalysisFailed ==
    /\ call.op = "update_game_outcome"
    /\ call.outcome = "defeat"
    /\ call.data
    /\ PunishRaises(memory)
    /\ best_win_streak = 1
    /\ win_streak = 0

\* ---- action selection

RewardOf(state, m) == ShapedReward(RewardTerms(StateFacts(state), m[1], m[2]))

\* the states that differ from `state` in the enemy heights only
SameButEnemies(state) ==
    {s \in SynthStates : \A k \in 1..(1 + 2 * MAX_ALLIES) : s[k] = state[k]}

PresenceOf(state) == StateFacts(state).enemy_presence

\* elixir was spent since the previous reward computation
Spent(state, m) ==
    m[1] # NoneRat /\ RatLt(StateFacts(state).elixir, m[1])

\* C15 as stated: for the shaping memory a call found, the reward of that
\* call is strictly above the reward of every state that differs only by a
\* larger enemy presence and strictly below that of every state that differs
\* only by a smaller one, a presence of 0 included.
C15_RewardDecreasing ==
    (ret.op = "compute_reward" /\ ret.state # <<>>) =>
        \A s \in SameButEnemies(ret.state) :
            /\ RatLt(PresenceOf(ret.state), PresenceOf(s))
                  => RatLt(RewardOf(s, ret.shaping), ret.reward)
            /\ RatLt(PresenceOf(s), PresenceOf(ret.state))
                  => RatLt(ret.reward, RewardOf(s, ret.shaping))

\* C15: for fixed prev_elixir, prev_enemy_presence and elixir the shaped
\* reward is strictly decreasing in enemy presence, p1 < p2 implies
\* reward(p1) > reward(p2), whenever p1 > 0 or no elixir was spent since the
\* previous computation (the bonus for spending elixir is paid only while
\* enemies are present).
C15_RewardDecreasingWhilePresent ==
    (ret.op = "compute_reward" /\ ret.state # <<>>) =>
        \A s \in SameButEnemies(ret.state) :
            /\ (/\ RatLt(PresenceOf(ret.state), PresenceOf(s))
                /\ (RatLt(Zero, PresenceOf(ret.state)) \/ ~Spent(s, ret.shaping)))
                  => RatLt(RewardOf(s, ret.shaping), ret.reward)
            /\ (/\ RatLt(PresenceOf(s), PresenceOf(ret.state))
                /\ (RatLt(Zero, PresenceOf(s)) \/ ~Spent(s, ret.shaping)))
                  => RatLt(ret.reward, RewardOf(s, ret.shaping))

\* a reward was computed for enemies present after elixir was spent and the
\* presence dropped
C15_SpentWhilePresent ==
    /\ ret.op = "compute_reward"
    /\ ret.terms.defensive = RatInt(5)
    /\ RatLt(Zero, ret.terms.success)
    /\ RatLt(Zero, ret.terms.efficiency)

C17_ConfigFailsAtConstruction ==
    config # AllSet =>
        /\ constructed # "ok"
        /\ Len(threads) = 0
        /\ ret.op = "init"

\* with the card-detection workspace unset the environment was constructed
\* and a step() returned mid-episode without any error
C17_StepWithoutCardWorkspace ==
    /\ CardWorkspaceMissing(config)
    /\ constructed = "ok"
    /\ ret.op = "step"
    /\ ret.path = "no_hand"

\* ---- the drivers' checkpoints and target updates

\* the mean over the most recent min(n, w) of the episode rewards s
TrailingMean(s, w) ==
    LET n == Len(s)
        m == IF n < w THEN n ELSE w
    IN  MeanOf(SubSeq(s, n - m + 1, n))

BeatsSaved(mean, saved) == \A k \in 1..Len(saved) : RatLt(saved[k], mean)

\* C18 as stated, N the window length: at the end of an episode the best
\* checkpoint is overwritten exactly when N episodes have completed and the
\* mean over the N most recent ones strictly exceeds every mean a best was
\* saved for; the latest checkpoint is overwritten after every episode.
C18_BestByWindow ==
    [][/\ (train.pc = "loop" /\ train'.pc = "sync") =>
              ((train'.best # train.best) <=>
                  /\ Len(train'.rewards) >= WindowLen
                  /\ BeatsSaved(TrailingMean(train'.rewards, WindowLen), train.saved))
       /\ (train.driver = "train" /\ train'.ep = train.ep + 1) =>
              train'.latest = train'.ep]_vars

\* C18: at the end of an episode the best checkpoint is overwritten exactly
\* when at least EligibleLen (10) episodes have completed and the mean over
\* the most recent min(n, WindowLen (50)) episodes strictly exceeds every
\* mean a best was saved for; the latest checkpoint is overwritten after
\* every episode.
C18_BestByWindowOnceEligible ==
    [][/\ (train.pc = "loop" /\ train'.pc = "sync") =>
              ((train'.best # train.best) <=>
                  /\ Len(train'.rewards) >= EligibleLen
                  /\ BeatsSaved(TrailingMean(train'.rewards, WindowLen), train.saved))
       /\ (train.driver = "train" /\ train'.ep = train.ep + 1) =>
              train'.latest = train'.ep]_vars

\* a best checkpoint was saved for a third time, for an episode later than the
\* window is long, and the latest checkpoint follows the episodes
C18_BestAfterWindow ==
    /\ train.driver = "train"
    /\ train.best > WindowLen
    /\ Len(train.saved) = 3
    /\ train.latest = train.ep
    /\ train.ep = train.best

\* C19: in train() and in play_match, update_target_model() is invoked
\* exactly once per completed episode and never between two steps of the
\* same episode; immediately after it the target network's weights equal the
\* online network's weights.
C19_TargetSyncedEachEpisode ==
    [][/\ train'.ep = train.ep + 1 => train.syncs = 1
       /\ train'.syncs = train.syncs + 1 =>
              (target_weights' = model_weights' /\ train.pc # "loop")]_vars

\* a match of the bot has completed in which replay trained the online
\* network and the target network still holds the initial weights
C19_BotNeverSyncs ==
    /\ train.driver = "bot"
    /\ train.ep = 1
    /\ train.pc = "reset"
    /\ model_weights > 0
    /\ target_weights = 0

\* ---- the terminal bonus

\* C20: between two consecutive reset() calls the terminal bonus (+100 for
\* victory, -100 for defeat) is added to the reward of at most one step()
\* call, however many step() calls are made after the watcher set the flag.
C20_TerminalBonusOnce == ret.bonuses <= 1

\* a second step() after the same reset() returned done with the bonus again
C20_BonusTwice ==
    /\ ret.op = "step"
    /\ ret.path = "terminal"
    /\ ret.bonuses = 2
    /\ ret.terms.terminal = RatInt(100)
    /\ ~ret.first


\* C21: once the match-over screen has been detected, a later step() returns
\* done=True even if the watcher never sets the terminal flag: from any state
\* of a started episode with match_over_detected set, a step() returning
\* done=True follows, unless
\* the watcher sets the flag after all or the driver leaves the episode
\* (reset() or close()).
C21_ScreenEndsEpisode ==
    (match_over_detected /\ endgame_thread # 0) ~>
        \/ ret.op = "step" /\ ret.done
        \/ game_over_flag # None
        \/ ret.op = "reset"
        \/ mainpc # "idle"

\* a step() that saw the match-over screen while the flag is unset and the
\* current watcher is still polling
C21_WaitingOnPostMatch ==
    /\ ret.op = "step"
    /\ ret.path \in {"no_hand", "play"}
    /\ match_over_detected
    /\ game_over_flag = None
    /\ ~ret.done
    /\ endgame_thread # 0
    /\ threads[endgame_thread].pc \in {"check", "poll", "sleep"}


\* the watcher t finds the end-of-match screen at a poll
PollFinds(t) ==
    /\ t \in 1..Len(threads)
    /\ \E result \in Results : WatcherPoll(t, result)

\* C22: a poll of the watcher without a result leaves game_over_flag as it was
\* and leads back to the loop; a watcher exits only by writing its result or at
\* the loop test with the stop event set; and if the end-of-match screen stays
\* visible (a watcher that polls again and again finds it at some poll), then
\* in every started episode the flag is eventually set, unless close() has set
\* the stop event.
C22_WatcherKeepsPolling ==
    /\ [][\A t \in 1..Len(threads) :
            /\ (threads[t].pc = "poll" /\ threads'[t].pc # "write" /\ threads'[t] # threads[t])
                  => /\ game_over_flag' = game_over_flag
                     /\ threads'[t].pc = "sleep"
            /\ threads[t].pc = "sleep" /\ threads'[t] # threads[t]
                  => threads'[t].pc = "check" /\ game_over_flag' = game_over_flag
            /\ (threads[t].pc # "exited" /\ threads'[t].pc = "exited")
                  => \/ threads[t].pc = "write" /\ game_over_flag' = threads[t].res
                     \/ threads[t].pc = "check" /\ endgame_thread_stop]_vars
    /\ (\A t \in 1..MaxResets : SF_vars(PollFinds(t)))
          => ((endgame_thread # 0) ~> (game_over_flag # None \/ endgame_thread_stop))

\* the current watcher asleep after a poll without a result, the flag unset
\* and the environment open
C22_PollWithoutResult ==
    /\ endgame_thread # 0
    /\ threads[endgame_thread].pc = "sleep"
    /\ game_over_flag = None
    /\ ~endgame_thread_stop


\* C23: between two reset() calls the terminal flag changes at most once, from
\* no result to a result, and only by a watcher's write: every change of
\* game_over_flag either clears it (reset()) or is the write of a watcher that
\* finds it unset, and leaves the record of the last step() untouched.
C23_FlagWrittenOnce ==
    [][game_over_flag' # game_over_flag =>
          \/ game_over_flag' = None /\ ret'.op = "reset"
          \/ /\ game_over_flag = None
             /\ ret' = ret
             /\ \E t \in 1..Len(threads) :
                    /\ threads[t].pc = "write"
                    /\ threads'[t].pc = "exited"
                    /\ game_over_flag' = threads[t].res]_vars

\* a watcher about to overwrite the result another watcher has written since
\* the last reset()
C23_SecondResult ==
    \E t \in 1..Len(threads) :
        /\ threads[t].pc = "write"
        /\ game_over_flag # None
        /\ threads[t].res # game_over_flag


\* ---- learning from a defeat

\* what the transition at position k of the buffer loses in reward by a step
Lowered(k) == RatSub(memory[k].r, memory'[k].r)

\* C24: a defeat reported with game data while at least 5 transitions are
\* stored lowers the reward of each of the last 5 by a positive multiple of
\* |total_reward|/100, a strictly larger multiple the more recent the
\* transition is; identity, done flag and order of the stored transitions and
\* the length of the buffer stay as they were.
C24_NewestPunishedMost ==
    [][(/\ call'.op = "update_game_outcome"
        /\ call'.outcome = "defeat"
        /\ call'.data
        /\ Len(memory) >= 5)
          => LET n == Len(memory)
             IN  /\ Len(memory') = n
                 /\ \A k \in 1..n : /\ memory'[k].id = memory[k].id
                                    /\ memory'[k].done = memory[k].done
                 /\ \E total \in TotalRewards, multiple \in [(n - 4)..n -> 1..5] :
                        /\ \A k \in (n - 4)..n :
                               Lowered(k) = RatMul(RatInt(multiple[k]),
                                                   Rat(Abs(total), 100))
                        /\ \A k \in (n - 4)..(n - 1) :
                               multiple[k] < multiple[k + 1]]_vars

\* after a defeat with game data on a buffer of five the oldest transition
\* has lost more reward than the newest
C24_OldestPunishedMost ==
    /\ call.op = "update_game_outcome"
    /\ call.outcome = "defeat"
    /\ call.data
    /\ Len(memory) = 5
    /\ LET lost(k) == RatSub(remembered[memory[k].id].r, memory[k].r)
       IN  /\ RatLt(Zero, lost(5))
           /\ RatLt(lost(5), lost(1))


\* the largest epsilon a defeat may raise epsilon to, line 616
ExplorationCap == <<8, 10>>

\* C25: update_game_outcome("defeat", total_reward, game_data) with non-empty
\* game data never leaves epsilon lower than it was before the call, and
\* leaves it at or below the exploration cap.
C25_DefeatNeverLowersEpsilon ==
    [][(/\ call'.op = "update_game_outcome"
        /\ call'.outcome = "defeat"
        /\ call'.data)
          => /\ ~RatLt(epsilon', epsilon)
             /\ ~RatLt(ExplorationCap, epsilon')]_vars

\* the first defeat of a newly constructed agent, reported with game data
\* before any training step, has left epsilon at 0.8
C25_FirstDefeatLowered ==
    /\ call.op = "update_game_outcome"
    /\ call.outcome = "defeat"
    /\ call.data
    /\ train_steps = 0
    /\ Len(game_outcomes) = 1
    /\ RatEq(epsilon, <<4, 5>>)


\* C26: a replay call that trains multiplies an epsilon above epsilon_min by
\* a constant factor, epsilon_decay when no recent loss is recorded; while a
\* recent loss is recorded epsilon decays more slowly, so the call leaves
\* epsilon lower than it was but higher than the factor epsilon_decay would
\* leave it from the same starting value.
C26_SlowerDecayAfterLoss ==
    [][(/\ call'.op = "replay"
        /\ train_steps' = train_steps + 1
        /\ RatLt(epsilon_min, epsilon))
          => IF recent_losses > 0
             THEN /\ RatLt(epsilon', epsilon)
                  /\ RatLt(RatMul(epsilon, epsilon_decay), epsilon')
             ELSE RatEq(epsilon', RatMul(epsilon, epsilon_decay))]_vars

\* a training step taken after a recorded loss has left epsilon below what
\* epsilon_decay leaves of the 0.8 the loss had set
C26_FasterDecayAfterLoss ==
    /\ call.op = "replay"
    /\ train_steps = 1
    /\ recent_losses > 0
    /\ Len(game_outcomes) = 1
    /\ RatLt(epsilon, RatMul(ExplorationCap, epsilon_decay))


\* ---- the early returns of step()

\* C27: a step() on the home screen clicks a menu button to start a battle
\* and returns reward 5 with done=False whatever action_index is: it presses
\* no card key and places no card, and leaves prev_elixir,
\* prev_enemy_presence, the recorded tower count, match_over_detected and
\* game_over_flag as they were.
C27_HomeScreenReturn ==
    [][(ret' # ret /\ ret'.op = "step" /\ ret'.path = "home")
          => /\ ret'.reward = RatInt(5)
             /\ ~ret'.done
             /\ ret'.card = -1
             /\ ~ret'.key
             /\ ret'.click = "button"
             /\ on_home_screen'
             /\ UNCHANGED <<prev_elixir, prev_enemy_presence,
                            prev_enemy_princess_towers, match_over_detected,
                            game_over_flag>>]_vars

\* a home-screen step() called with a card placement index while the
\* match-over screen has been seen and the watcher has written a result
C27_HomeAfterResult ==
    /\ ret.op = "step"
    /\ ret.path = "home"
    /\ ret.arg \in 0..(num_cards * EnvGrid * EnvGrid - 1)
    /\ ret.arg # 0
    /\ match_over_detected
    /\ ret.flag # None
    /\ prev_elixir # NoneRat


\* C28: once the match-over screen has been detected in an episode, every
\* later step() of the episode behaves as the no-op whatever action_index is
\* passed: it presses no card key, places no card and clicks nowhere on the
\* play field, the neutral centre click included.
C28_NoOpAfterMatchOver ==
    [][(ret' # ret /\ ret'.op = "step" /\ match_over_detected)
          => /\ ~ret'.key
             /\ ret'.card = -1
             /\ ret'.click \notin {"field", "centre"}]_vars

\* C28 as the code has it: once the match-over screen has been detected in an
\* episode, every later step() of the episode ignores the action_index
\* passed: it presses no card key and places no card; the one click it can
\* still make on the play field is the neutral centre click of the
\* unknown-hand return, and only while in_battle is true.
C28_NoCardAfterMatchOver ==
    [][(ret' # ret /\ ret'.op = "step" /\ match_over_detected)
          => /\ ~ret'.key
             /\ ret'.card = -1
             /\ ret'.click # "field"
             /\ ret'.click = "centre" => (ret'.path = "no_hand" /\ in_battle')]_vars

\* a step() called with a card placement index and a known hand after the
\* match-over screen was forced to the no-op and played nothing
C28_ForcedNoOp ==
    /\ ret.op = "step"
    /\ ret.path = "play"
    /\ ~ret.first
    /\ match_over_detected
    /\ ret.arg # ret.index
    /\ ret.index = Len(available_actions) - 1
    /\ ~ret.key


\* C29: a step() that reads the hand and finds every slot unknown plays no
\* card and returns reward 0 with done=False; it clicks the centre of the
\* screen if and only if in_battle is true and performs no other pointer
\* action; prev_elixir, prev_enemy_presence and the recorded tower count are
\* left as they were.
C29_UnknownHandReturn ==
    [][(/\ ret' # ret
        /\ ret'.op = "step"
        /\ ret'.path \in {"no_hand", "play"}
        /\ AllUnknown(current_cards'))
          => /\ ret'.path = "no_hand"
             /\ ret'.card = -1
             /\ ~ret'.key
             /\ ret'.reward = Zero
             /\ ~ret'.done
             /\ ret'.click = (IF in_battle' THEN "centre" ELSE "none")
             /\ UNCHANGED <<prev_elixir, prev_enemy_presence,
                            prev_enemy_princess_towers>>]_vars

\* a step() called with a card placement index found four unknown cards
\* outside a battle, after the shaping memory had been set, and clicked nothing
C29_UnknownHandOutsideBattle ==
    /\ ret.op = "step"
    /\ ret.path = "no_hand"
    /\ current_cards = HandUnknown
    /\ ret.arg = ret.index
    /\ ret.arg # Len(available_actions) - 1
    /\ ~in_battle
    /\ ret.click = "none"
    /\ prev_elixir # NoneRat


\* ---- batch sampling

\* the negative-reward transitions among the most recent fifth of the buffer
\* (the last max(1, n div 5) of n stored transitions)
RecentNegatives ==
    LET n == Len(memory)
        fifth == IF n \div 5 > 1 THEN n \div 5 ELSE 1
    IN  {p \in (n - fifth + 1)..n : memory[p].r[1] < 0}

\* C30: a replay called while at least batch_size transitions are stored
\* trains on exactly batch_size entries, all of them stored transitions; if
\* the most recent fifth of the buffer holds k > 0 negative-reward
\* transitions, exactly min(batch_size div 2, k) entries are drawn from those
\* and the rest from the whole buffer; if k = 0 the whole batch is drawn from
\* the whole buffer.
C30_BatchComposition ==
    (call.op = "replay" /\ Len(memory) >= call.batch)
        => LET k == Cardinality(RecentNegatives)
               half == call.batch \div 2
               drawn == call.sample
           IN  /\ drawn.drawn
               /\ Cardinality(drawn.loss) + Cardinality(drawn.other) = call.batch
               /\ drawn.other \subseteq 1..Len(memory)
               /\ drawn.loss \subseteq RecentNegatives
               /\ Cardinality(drawn.loss) =
                     (IF k = 0 THEN 0 ELSE IF half < k THEN half ELSE k)

\* a replay of batch size 3 on a buffer whose recent fifth holds two
\* negative-reward transitions: one entry drawn from those, two from the
\* whole buffer, among them the oldest transition
C30_HalfFromRecentLosses ==
    /\ call.op = "replay"
    /\ call.batch = 3
    /\ Cardinality(RecentNegatives) = 2
    /\ Cardinality(call.sample.loss) = 1
    /\ Cardinality(call.sample.other) = 2
    /\ 1 \in call.sample.other

\* The point of the screen that card_play clicks for the decoded action
\* (lines 286-287), and the enemy units of a detector output that lie within
\* 100 pixels of it when both are taken in screen coordinates
ClickPoint(index) ==
    LET action == available_actions[index + 1]
    IN  <<RatTrunc(RatMul(action[2], RatInt(WIDTH))) + TOP_LEFT_X,
          RatTrunc(RatMul(action[3], RatInt(HEIGHT))) + TOP_LEFT_Y>>

EnemyWithinRadius(predictions, point) ==
    \E k \in 1..Len(UnitsOf(predictions, "enemy")) :
        LET u == UnitsOf(predictions, "enemy")[k]
            dx == u.x + TOP_LEFT_X - point[1]
            dy == u.y + TOP_LEFT_Y - point[2]
        IN  k <= MAX_ENEMIES /\ dx * dx + dy * dy < 100 * 100

\* C31: the spell-waste penalty (-5) is added to a step's reward exactly
\* when a spell card was played in that step and no detected enemy unit lies
\* within 100 pixels of the click point, both taken in the same screen
\* coordinate frame; an enemy exactly at the click point never yields the
\* penalty.  (Violated: the click point carries the screen offset of the
\* field and the enemy positions do not, lines 286-287 and 297-300.)
C31_SpellPenaltySameFrame ==
    (ret.op = "step" /\ ret.path = "play") =>
        LET wasted == /\ ret.key
                      /\ current_cards[ret.card + 1] \in SPELL_CARDS
                      /\ ~EnemyWithinRadius(FrameOf(ret.seen.frame),
                                            ClickPoint(ret.index))
        IN  ret.terms.spell = (IF wasted THEN RatInt(-5) ELSE Zero)

\* a spell played onto an enemy unit and penalised as wasted
C31_PenaltyOnTopOfEnemy ==
    /\ ret.op = "step"
    /\ ret.path = "play"
    /\ ret.key
    /\ current_cards[ret.card + 1] \in SPELL_CARDS
    /\ EnemyWithinRadius(FrameOf(ret.seen.frame), ClickPoint(ret.index))
    /\ ret.terms.spell = RatInt(-5)

\* C32: no exception raised inside an agent analysis helper reaches the
\* caller: when the override layer fails, act() returns the plain argmax;
\* when the loss analysis or punishment fails, update_game_outcome still
\* completes its bookkeeping and appends the outcome; when the biased
\* sampling or the penalty computation fails, replay still trains on a
\* uniformly sampled batch with the unmodified loss.
C32_HelperFailuresContained ==
    [][/\ (call'.op = "act" /\ ~call'.act.random
            /\ apply_smart_logic(GetState(FrameOf(call'.act.scene.frame),
                                          call'.act.scene.elixir),
                                 call'.act.q) = NoAction) =>
              call'.act.action = ArgMax(call'.act.q)
       /\ (call'.op = "update_game_outcome" /\ call'.outcome = "defeat"
            /\ call'.data /\ PunishRaises(memory)) =>
              /\ win_streak' = 0
              /\ total_losses' = total_losses + 1
              /\ game_outcomes' = Append(game_outcomes, "defeat")
       /\ (call'.op = "replay" /\ call'.sample.drawn
            /\ call'.sample.fault # "none") =>
              /\ train_steps' = train_steps + 1
              /\ model_weights' = model_weights + 1
              /\ call'.sample.other \subseteq 1..Len(memory)
              /\ call'.sample.fault = "sampling" =>
                    /\ call'.sample.loss = {}
                    /\ Cardinality(call'.sample.other) = call'.batch
              /\ call'.sample.fault = "penalty" => call'.sample.added = 0
      ]_vars

\* a replay trained on a fallback batch after the sampling had raised, in an
\* agent whose loss punishment had raised before
C32_FallbackBatchTrained ==
    /\ call.op = "replay"
    /\ call.sample.drawn
    /\ call.sample.fault = "sampling"
    /\ train_steps = 1
    /\ total_losses = 1
    /\ PunishRaises(memory)

\* C33: in the bot's run loop the consecutive-error counter is 0 after every
\* match whose outcome is not "error" and never exceeds 5 (reaching 5 leads
\* to the long pause and back to 0), and the loop is left only after a stop
\* request: errors alone never end it.
C33_ErrorCounterBounded ==
    train.driver = "bot" =>
        /\ train.errors \in 0..max_consecutive_errors
        /\ (train.pc = "reset" /\ train.outcome \notin {"none", "error"}) =>
              train.errors = 0
        /\ train.pc = "stopped" => train.stop
        /\ train.pc # "crashed"

\* a fifth consecutive failed match has taken the counter back to 0 and the
\* loop goes on
C33_LongBreakTaken ==
    /\ train.driver = "bot"
    /\ train.pc = "reset"
    /\ train.outcome = "error"
    /\ train.errors = 0
    /\ ~train.stop

\* C35: the outcome reported to the agent agrees with the terminal signal:
\* "victory" only if the flag read by the terminal step was "victory" and
\* "defeat" only if it was "defeat", whatever shaping, home-screen or
\* trophy-road rewards the episode accumulated.  (Violated: the outcome is
\* taken from the sign and size of the episode's total reward.)
C35_OutcomeAgreesWithFlag ==
    (train.pc = "reset" /\ train.reported) =>
        /\ train.outcome = "victory" => train.flag = "victory"
        /\ train.outcome = "defeat" => train.flag = "defeat"

\* a lost match reported to the agent as a victory
C35_DefeatReportedAsVictory ==
    /\ train.pc = "reset"
    /\ train.reported
    /\ train.flag = "defeat"
    /\ train.outcome = "victory"

\* C37: every episode loop ends after at most max_steps step() calls, also
\* when the watcher never sets the flag and when step() raises on every
\* call.  (Violated: play_match does not count a step() call that raised.)
C37_StepCallsBounded == train.calls <= MaxMatchSteps

\* play_match is still in its loop after more than max_steps step() calls
C37_MoreCallsThanSteps ==
    /\ train.driver = "bot"
    /\ train.pc = "loop"
    /\ train.calls > MaxMatchSteps
    /\ train.steps = 0

\* C34: in a regular step (one that returns from line 318) the reward is
\* computed from the state vector that step() returns as next_state, also
\* when the detector output changes between two captures: the elixir and
\* the enemy presence that _compute_reward read, and kept as the shaping
\* memory, are those of the state returned.  (Violated: the reward is
\* computed from one capture, line 316, and the state returned is another,
\* line 317.)
C34_RewardFromReturnedState ==
    (ret.op = "step" /\ ret.path = "play") =>
        /\ prev_elixir = StateFacts(ret.state).elixir
        /\ prev_enemy_presence = StateFacts(ret.state).enemy_presence

\* a regular step returned a state without enemies with a reward computed
\* from a state with enemies
C34_RewardFromOtherCapture ==
    /\ ret.op = "step"
    /\ ret.path = "play"
    /\ StateFacts(ret.state).enemy_presence = Zero
    /\ RatLt(Zero, prev_enemy_presence)
    /\ RatLt(ret.reward, Zero)

\* C36: starting from epsilon = 1.0, after any sequence of replay,
\* update_game_outcome and adapt_strategy_based_on_losses calls epsilon
\* stays within [epsilon_min, 1.0] = [0.01, 1.0]; the geometric decay never
\* takes it below epsilon_min.  (Violated: replay multiplies whenever epsilon
\* is above epsilon_min and does not clamp the product.)
C36_EpsilonInRange ==
    /\ ~RatLt(epsilon, epsilon_min)
    /\ ~RatLt(RatInt(1), epsilon)

\* a replay has taken epsilon below epsilon_min
C36_DecayedBelowMin ==
    /\ call.op = "replay"
    /\ train_steps = 1
    /\ RatLt(epsilon, epsilon_min)

\* C38: a terminal flag that step() observes in an episode was written by
\* the watcher that the reset() of that episode started: a watcher finds a
\* result (and clicks the result screen's OK button) or writes the flag only
\* while it is the thread of the latest reset().  (Violated: reset() leaves
\* the watcher of an unfinished episode running.)
C38_OnlyCurrentWatcherActs ==
    [][\A t \in 1..Len(threads) :
          (\/ threads[t].pc = "poll" /\ threads'[t].pc = "write"
           \/ threads[t].pc = "write" /\ threads'[t].pc = "exited") =>
             t = endgame_thread]_vars

\* step() has returned done=True on a flag while the watcher of its own
\* episode is still polling: the flag was written by an earlier watcher
C38_StaleFlagObserved ==
    /\ ret.op = "step"
    /\ ret.done
    /\ endgame_thread > 1
    /\ threads[endgame_thread].pc \in {"check", "poll", "sleep"}
    /\ threads[endgame_thread - 1].pc = "exited"

\* C39: once the watcher has set the terminal flag the episode ends: under
\* a driver that keeps calling step(), a step() returning done=True follows
\* (unless the driver closes the environment), and no step() starts a new
\* battle from the home screen while the flag is set.  (Violated: the
\* home-screen return clicks the battle button before the flag is read.)
C39_FlagEndsEpisode ==
    /\ [][(\E arg \in ThreadArgs, sN \in CtlScenes : StepHome(arg, sN)) =>
             game_over_flag = None]_vars
    /\ ((game_over_flag # None) ~>
           ((ret.op = "step" /\ ret.done) \/ mainpc # "idle"))

\* a step() of the driver's loop that gets past the home-screen return
StepPastHome ==
    \E arg \in ThreadArgs, v \in LiveViews, hand \in LiveHands,
       sc \in StepScenes(CtlScenes) :
        \/ StepTrophy(arg, v[1], sc[2])
        \/ StepTerminal(arg, v[1], sc[1], sc[2])
        \/ StepNoHand(arg, v[1], v[2], hand, sc[2])
        \/ StepPlay(arg, v[1], v[2], hand, sc[1], sc[1].frame, sc[1], sc[2])

\* C39: once the watcher has set the terminal flag, a step() classified as
\* the home screen clicks the battle button and returns without reading or
\* clearing the flag; under a driver that keeps calling step(), if the screen
\* does not stay the home screen for ever, a step() returning done=True
\* follows (unless the driver closes the environment).
C39_FlagEndsEpisodePastHome ==
    /\ [][(\E arg \in ThreadArgs, sN \in CtlScenes : StepHome(arg, sN)) =>
             game_over_flag' = game_over_flag]_vars
    /\ ([]<><<StepPastHome>>_vars =>
           ((game_over_flag # None) ~>
               ((ret.op = "step" /\ ret.done) \/ mainpc # "idle")))

\* step() has clicked the battle button on the home screen while the flag
\* holds the result of the episode
C39_BattleStartedBeforeDone ==
    /\ ret.op = "step"
    /\ ret.path = "home"
    /\ ret.click = "button"
    /\ ~ret.done
    /\ game_over_flag # None
    /\ endgame_thread # 0
    /\ threads[endgame_thread].pc = "exited"

\* C40: a defeat reported with game data while fewer than 5 transitions are
\* stored is handled like any other defeat: the reward of every stored
\* transition is lowered, epsilon is raised by the loss-punishment step (to
\* at most the exploration cap) and the loss is appended to the recent-loss
\* record.  (Violated: the punishment loop raises IndexError on a short
\* buffer and the rest of the punishment is skipped.)
C40_ShortBufferPunished ==
    [][(/\ call'.op = "update_game_outcome"
        /\ call'.outcome = "defeat"
        /\ call'.data
        /\ Len(memory) \in 1..4
        /\ Len(game_outcomes) <= 3)
          => /\ Len(memory') = Len(memory)
             /\ \A k \in 1..Len(memory) : RatLt(memory'[k].r, memory[k].r)
             /\ RatEq(epsilon', RatMin(ExplorationCap, RatAdd(epsilon, <<1, 10>>)))
             /\ recent_losses' = recent_losses + 1]_vars

\* a defeat with game data has been counted while the two stored transitions
\* kept their rewards and no loss was recorded
C40_ShortBufferUntouched ==
    /\ call.op = "update_game_outcome"
    /\ call.outcome = "defeat"
    /\ call.data
    /\ total_losses = 1
    /\ Len(memory) = 2
    /\ \A k \in 1..2 : memory[k].r = remembered[memory[k].id].r
    /\ recent_losses = 0
    /\ epsilon = RatInt(1)

====
